---- MODULE Spec2Model ----
(***************************************************************************)
(* A model of the SkillMatch chat client (src/app.js): the streaming       *)
(* session streamGeminiResponseViaProxy with its WebSocket handlers and    *)
(* deadline timer, and the chat turn handleSendMessage with its blocking   *)
(* fallback.                                                               *)
(*                                                                         *)
(* Strings are TLA+ strings; string concatenation (JS +=) is \o.           *)
(* JavaScript values are tagged records [t |-> type, v |-> value].         *)
(***************************************************************************)
EXTENDS Integers, Sequences, FiniteSets, TLC

VARIABLES
    session,       \* turn -> the closure state of streamGeminiResponseViaProxy
    pc,            \* turn -> position of handleSendMessage in that turn
    chatMessages,  \* the children of #chat-messages, in document order
    chatHistory,   \* the transcript array chatHistory
    sendDisabled,  \* sendButton.disabled
    httpCalls,     \* the callGeminiAPI calls issued, in order
    modalCvData,      \* ui.js: the records under review in the modal
    activeCvIndex,    \* ui.js: the 0-based index of the record on display
    dom,              \* ui.js: the rendered view, #cvResultsContainer
    modalOpen,        \* ui.js: #cvModal is displayed
    submittedCvData,  \* ui.js: the submitted record set
    uploadedCvs,      \* ui.js: the records of the analyzed files
    edits,            \* the number of add-row and typing edits so far
    submits,          \* the number of submits so far
    gen,              \* ui.js: the position of the Generate click handler
    bubbles,          \* ui.js: the children of #submitted-cv-bubbles
    fileInput,        \* ui.js: fileInput.files, the names of the selected files
    generateDisabled, \* ui.js: generateBtn.disabled
    recoRuns,         \* ui.js: the recommendation generations started, in order
    lastRecommendations, \* ui.js: the run whose result lastRecommendations holds
    selections,       \* the number of file selections made so far
    storeCall         \* one call of upsertByName: its arguments and result

appVars == <<session, pc, chatMessages, chatHistory, sendDisabled, httpCalls>>

uiVars == <<modalCvData, activeCvIndex, dom, modalOpen, submittedCvData,
            uploadedCvs, edits, submits, gen, bubbles, fileInput,
            generateDisabled, recoRuns, lastRecommendations, selections,
            storeCall>>

pageVars == <<modalCvData, activeCvIndex, dom, modalOpen, submittedCvData,
              uploadedCvs, edits, submits, gen, bubbles, fileInput,
              generateDisabled, recoRuns, lastRecommendations, selections>>

vars == <<session, pc, chatMessages, chatHistory, sendDisabled, httpCalls,
          modalCvData, activeCvIndex, dom, modalOpen, submittedCvData,
          uploadedCvs, edits, submits, gen, bubbles, fileInput,
          generateDisabled, recoRuns, lastRecommendations, selections,
            storeCall>>

chatVars == <<pc, chatMessages, chatHistory, sendDisabled, httpCalls>>

(***************************************************************************)
(* Bounds of the model.                                                    *)
(***************************************************************************)
\* frames delivered to one session when a session is studied alone
MaxFrames == 2
\* frames delivered to one session inside a chat turn
MaxChatFrames == 2
\* chat turns started in one run
MaxTurns == 1

\* the turns of the chat that runs one turn after the other
ChatTurns == 1..MaxTurns

\* the turns of handleSendMessage: one more than the chat above starts, so
\* that a turn can be started while the turns before it are still awaiting
Turns == 1..(MaxTurns + 1)

(***************************************************************************)
(* JavaScript values.                                                      *)
(***************************************************************************)
Undefined == [t |-> "undefined", v |-> "undefined"]

Null == [t |-> "null", v |-> "null"]

Str(s) == [t |-> "string", v |-> s]

\* a number, kept by its decimal text (what String(n) gives)
Num(s) == [t |-> "number", v |-> s]

Arr(elems) == [t |-> "array", v |-> elems]

Obj(fields) == [t |-> "object", v |-> fields]

\* a binary WebSocket payload (Blob); String(blob) is "[object Blob]"
Blob == [t |-> "blob", v |-> "[object Blob]"]

\* ToBoolean
Truthy(x) ==
    CASE x.t = "undefined" -> FALSE
      [] x.t = "null" -> FALSE
      [] x.t = "string" -> x.v # ""
      [] x.t = "number" -> x.v # "0"
      [] OTHER -> TRUE

\* a || b
OrElse(a, b) == IF Truthy(a) THEN a ELSE b

\* reading a property of null or undefined throws a TypeError
Nullish(x) == x.t \in {"undefined", "null"}

\* x.k for a value x that is not nullish
Get(x, k) ==
    IF x.t = "object" /\ k \in DOMAIN x.v THEN x.v[k] ELSE Undefined

\* x[0] for a value x that is not nullish
First(x) ==
    IF x.t = "array" /\ Len(x.v) > 0 THEN x.v[1] ELSE Undefined

\* ToString, as used by fullText += token
ToStr(x) == x.v

(***************************************************************************)
(* The inbound payloads (evt.data) the model delivers.                     *)
(***************************************************************************)
F_TokHel == "{\"event\":\"token\",\"token\":\"Hel\"}"

F_TokLo == "{\"event\":\"token\",\"token\":\"lo\"}"

F_TokEmpty == "{\"event\":\"token\",\"token\":\"\"}"

F_TokNum == "{\"event\":\"token\",\"token\":5}"

F_Text == "{\"text\":\"abc\"}"

F_TextEnd == "{\"text\":\"bye\",\"event\":\"end\"}"

F_End == "{\"event\":\"end\"}"

F_Choice == "{\"choices\":[{\"delta\":{\"content\":\"Hi\"}}]}"

F_ChoiceText == "{\"choices\":[{\"delta\":{\"text\":\"T\"}}]}"

F_ChoiceFin == "{\"choices\":[{\"delta\":{\"content\":\"!\"},\"finish_reason\":\"stop\"}]}"

F_ChoiceOnlyFin == "{\"choices\":[{\"delta\":{},\"finish_reason\":\"stop\"}]}"

F_ChoiceBlank == "{\"choices\":[{\"delta\":{\"content\":\"\"}}]}"

F_TextAmp == "{\"text\":\"R&amp;D\"}"

F_ChoiceEmpty == "{\"choices\":[]}"

F_ChoiceNull == "{\"choices\":[null]}"

F_ChoiceStr == "{\"choices\":[\"x\"]}"

F_ChoiceTokenText == "{\"choices\":[{\"delta\":{\"content\":\"C\"}}],\"event\":\"token\",\"token\":\"K\",\"text\":\"X\"}"

F_TokenText == "{\"event\":\"token\",\"token\":\"K\",\"text\":\"X\"}"

F_ChoiceEnd == "{\"choices\":[{\"delta\":{}}],\"event\":\"end\"}"

F_ChoicesNotList == "{\"choices\":\"no\",\"text\":\"ok\"}"

F_Unknown == "{\"foo\":1}"

F_JsonNum == "123"

F_JsonNull == "null"

F_Done == "[DONE]"

F_DonePadded == " [DONE]\n"

F_Empty == ""

F_Blank == " "

F_Newline == "\n"

F_Plain == "Hello wor"

F_PlainPadded == " hi "

\* the text payloads
TextFrames ==
    { F_TokHel, F_TokLo, F_TokEmpty, F_TokNum, F_Text, F_TextEnd, F_End,
      F_Choice, F_ChoiceText, F_ChoiceFin, F_ChoiceOnlyFin, F_ChoiceEmpty,
      F_ChoiceNull, F_ChoiceStr, F_ChoicesNotList, F_Unknown, F_JsonNum,
      F_JsonNull, F_Done, F_DonePadded, F_Empty, F_Blank, F_Newline,
      F_Plain, F_PlainPadded, F_ChoiceBlank, F_TextAmp, F_ChoiceTokenText,
      F_TokenText, F_ChoiceEnd }

\* every evt.data the model delivers to a session studied alone
Frames == { Str(f) : f \in TextFrames } \cup { Blob }

\* the evt.data delivered inside a chat turn
ChatFrames == { Str(F_TokHel), Str(F_TextAmp), Str(F_End) }

\* JSON.parse over the payloads above: TRUE when it throws a SyntaxError
JSONParseThrows(str) ==
    str \in { F_Done, F_DonePadded, F_Empty, F_Blank, F_Newline, F_Plain,
              F_PlainPadded, Blob.v }

\* JSON.parse over the payloads above, where it does not throw
JSONParse(str) ==
    CASE str = F_TokHel -> Obj([event |-> Str("token"), token |-> Str("Hel")])
      [] str = F_TokLo -> Obj([event |-> Str("token"), token |-> Str("lo")])
      [] str = F_TokEmpty -> Obj([event |-> Str("token"), token |-> Str("")])
      [] str = F_TokNum -> Obj([event |-> Str("token"), token |-> Num("5")])
      [] str = F_Text -> Obj([text |-> Str("abc")])
      [] str = F_TextEnd -> Obj([text |-> Str("bye"), event |-> Str("end")])
      [] str = F_End -> Obj([event |-> Str("end")])
      [] str = F_Choice ->
            Obj([choices |-> Arr(<<Obj([delta |-> Obj([content |-> Str("Hi")])])>>)])
      [] str = F_ChoiceText ->
            Obj([choices |-> Arr(<<Obj([delta |-> Obj([text |-> Str("T")])])>>)])
      [] str = F_ChoiceFin ->
            Obj([choices |-> Arr(<<Obj([delta |-> Obj([content |-> Str("!")]),
                                        finish_reason |-> Str("stop")])>>)])
      [] str = F_ChoiceOnlyFin ->
            Obj([choices |-> Arr(<<Obj([delta |-> Obj(<<>>),
                                        finish_reason |-> Str("stop")])>>)])
      [] str = F_ChoiceBlank ->
            Obj([choices |-> Arr(<<Obj([delta |-> Obj([content |-> Str("")])])>>)])
      [] str = F_TextAmp -> Obj([text |-> Str("R&amp;D")])
      [] str = F_ChoiceEmpty -> Obj([choices |-> Arr(<<>>)])
      [] str = F_ChoiceNull -> Obj([choices |-> Arr(<<Null>>)])
      [] str = F_ChoiceStr -> Obj([choices |-> Arr(<<Str("x")>>)])
      [] str = F_ChoiceTokenText ->
            Obj([choices |-> Arr(<<Obj([delta |-> Obj([content |-> Str("C")])])>>),
                 event |-> Str("token"), token |-> Str("K"), text |-> Str("X")])
      [] str = F_TokenText ->
            Obj([event |-> Str("token"), token |-> Str("K"), text |-> Str("X")])
      [] str = F_ChoiceEnd ->
            Obj([choices |-> Arr(<<Obj([delta |-> Obj(<<>>)])>>),
                 event |-> Str("end")])
      [] str = F_ChoicesNotList -> Obj([choices |-> Str("no"), text |-> Str("ok")])
      [] str = F_Unknown -> Obj([foo |-> Num("1")])
      [] str = F_JsonNum -> Num("123")
      [] str = F_JsonNull -> Null

\* String.prototype.trim over the payloads above
Trim(str) ==
    CASE str = F_DonePadded -> "[DONE]"
      [] str = F_Blank -> ""
      [] str = F_Newline -> ""
      [] str = F_PlainPadded -> "hi"
      [] OTHER -> str

\* safeParseJSON(str): the decoded value, or null when JSON.parse throws
safeParseJSON(data) ==
    IF JSONParseThrows(ToStr(data)) THEN Null ELSE JSONParse(ToStr(data))

(***************************************************************************)
(* The stream session: the closure of streamGeminiResponseViaProxy.        *)
(* ws is the WebSocket's readyState ("NONE" before construction); the      *)
(* WebSocket follows the WHATWG standard: message events are dispatched    *)
(* only while OPEN, close() moves CONNECTING/OPEN to CLOSING, a failed     *)
(* connection fires error and then close.                                  *)
(* settleCalls, frames, onTokenCalls, uncaught and wsErrored are history:  *)
(* the calls of resolve/reject, the evt.data handled, the onToken calls,   *)
(* the exceptions that left onmessage, and whether an error event fired;   *)
(* late counts the frames that reached the WebSocket after close() and     *)
(* were dropped by it without a message event.                             *)
(***************************************************************************)
NoSession ==
    [ created |-> FALSE, resolved |-> FALSE, fullText |-> "", ws |-> "NONE",
      wsErrored |-> FALSE, sent |-> <<>>, startPayload |-> <<>>,
      timer |-> "unset",
      promise |-> [state |-> "pending", value |-> ""], settleCalls |-> 0,
      frames |-> <<>>, onTokenCalls |-> <<>>, uncaught |-> 0, late |-> 0 ]

\* the promise's resolve(val): settles a pending promise, otherwise nothing
resolve(s, val) ==
    [s EXCEPT !.settleCalls = @ + 1,
              !.promise = IF @.state = "pending"
                          THEN [state |-> "fulfilled", value |-> val] ELSE @]

\* the promise's reject(err)
reject(s, err) ==
    [s EXCEPT !.settleCalls = @ + 1,
              !.promise = IF @.state = "pending"
                          THEN [state |-> "rejected", value |-> err] ELSE @]

\* a ws.close() that leaves the channel as it is
wsClose_Noop(s) == s

\* ws.close()
wsClose(s) ==
    [s EXCEPT !.ws = IF @ \in {"CONNECTING", "OPEN"} THEN "CLOSING" ELSE @]

\* clearTimeout(timer)
clearTimeout(s) ==
    [s EXCEPT !.timer = IF @ = "pending" THEN "cleared" ELSE @]

\* a clearAndResolve without its ws.close()
clearAndResolve_KeepsOpen(s, val) ==
    IF s.resolved THEN s
    ELSE resolve([s EXCEPT !.resolved = TRUE], val)

clearAndResolve(s, val) ==
    IF s.resolved THEN s
    ELSE resolve(wsClose([s EXCEPT !.resolved = TRUE]), val)

\* clearAndReject without its `if (resolved) return`
clearAndReject_NoGuard(s, err) ==
    reject(wsClose([s EXCEPT !.resolved = TRUE]), err)

clearAndReject(s, err) ==
    IF s.resolved THEN s
    ELSE reject(wsClose([s EXCEPT !.resolved = TRUE]), err)

\* a setTimeout callback that resolves with the partial text
timerCallback_ResolvesPartial(s) ==
    IF ~s.resolved
    THEN clearAndResolve(wsClose(s), s.fullText)
    ELSE s

\* the setTimeout callback
timerCallback(s) ==
    IF ~s.resolved
    THEN clearAndReject(wsClose(s), "Streaming timeout")
    ELSE s

\* the promise executor; ctorThrows: new WebSocket(wsUrl) throws
streamGeminiResponseViaProxy(startPayload, ctorThrows) ==
    IF ctorThrows
    THEN reject([NoSession EXCEPT !.created = TRUE,
                                  !.startPayload = startPayload], "ctor")
    ELSE [NoSession EXCEPT !.created = TRUE, !.startPayload = startPayload,
                           !.ws = "CONNECTING", !.timer = "pending"]

\* an onopen that sends the start message twice
onopen_SendsTwice(s) ==
    [s EXCEPT !.sent = @ \o << [type |-> "start", payload |-> s.startPayload],
                               [type |-> "start", payload |-> s.startPayload] >>]

onopen(s) ==
    [s EXCEPT !.sent = Append(@, [type |-> "start", payload |-> s.startPayload])]

onerror(s) == clearAndReject(clearTimeout(s), "WebSocket error")

\* an onclose that treats a close without any text as an error
onclose_RejectsEmpty(s) ==
    LET c == clearTimeout(s)
    IN  IF c.resolved THEN c
        ELSE IF c.fullText = "" THEN clearAndReject(c, "closed")
        ELSE clearAndResolve(c, c.fullText)

\* an onclose that clears the timer and leaves the promise alone
onclose_OnlyClears(s) == clearTimeout(s)

onclose(s) ==
    LET c == clearTimeout(s)
    IN  IF ~c.resolved THEN clearAndResolve(c, c.fullText) ELSE c

\* fullText = token in place of fullText += token
emitToken_Overwrite(s, token, throws) ==
    [s EXCEPT !.fullText = ToStr(token),
              !.onTokenCalls = Append(@, [arg |-> ToStr(token), threw |-> throws,
                                          settled |-> s.resolved])]

\* onToken(fullText) in place of onToken(token)
emitToken_Cumulative(s, token, throws) ==
    [s EXCEPT !.fullText = @ \o ToStr(token),
              !.onTokenCalls = Append(@, [arg |-> s.fullText \o ToStr(token),
                                          threw |-> throws,
                                          settled |-> s.resolved])]

\* an emitToken without the try/catch around onToken(token)
emitToken_NoCatch(s, token, throws) ==
    [s EXCEPT !.fullText = @ \o ToStr(token),
              !.onTokenCalls = Append(@, [arg |-> ToStr(token), threw |-> throws,
                                          settled |-> s.resolved]),
              !.uncaught = IF throws THEN @ + 1 ELSE @]

\* fullText += token; try { onToken(token) } catch (e) { console.error(e) }
\* (each call is logged with its argument, whether the callback threw, and
\* whether the session had already been settled when it was called)
emitToken(s, token, throws) ==
    [s EXCEPT !.fullText = @ \o ToStr(token),
              !.onTokenCalls = Append(@, [arg |-> ToStr(token), threw |-> throws,
                                          settled |-> s.resolved])]

\* x === "lit"
StrictEq(x, lit) == x.t = "string" /\ x.v = lit

\* clearTimeout(timer); clearAndResolve(fullText)
finish(s) == clearAndResolve(clearTimeout(s), s.fullText)

\* a case 1 that settles on the finish indicator before it looks at the delta
onChoices_FinishFirst(s, maybe, throws) ==
    LET c0 == First(Get(maybe, "choices"))
    IN  IF Nullish(c0)
        THEN [s EXCEPT !.uncaught = @ + 1]
        ELSE LET delta == OrElse(Get(c0, "delta"), Obj(<<>>))
                 token == OrElse(OrElse(Get(delta, "content"), Get(delta, "text")),
                                 Str(""))
                 s1 == IF Truthy(Get(c0, "finish_reason")) THEN finish(s) ELSE s
             IN  IF Truthy(token) THEN emitToken(s1, token, throws) ELSE s1

\* case 1 of onmessage, for a decoded object with a choices array
onChoices(s, maybe, throws) ==
    LET c0 == First(Get(maybe, "choices"))
    IN  IF Nullish(c0)
        THEN [s EXCEPT !.uncaught = @ + 1]
        ELSE LET delta == OrElse(Get(c0, "delta"), Obj(<<>>))
                 token == OrElse(OrElse(Get(delta, "content"), Get(delta, "text")),
                                 Str(""))
                 s1 == IF Truthy(token) THEN emitToken(s, token, throws) ELSE s
             IN  IF Truthy(Get(c0, "finish_reason")) THEN finish(s1) ELSE s1

\* a raw-text tail that appends the trimmed text
onRaw_AppendsTrimmed(s, raw, throws) ==
    IF raw.t = "string"
    THEN IF Trim(raw.v) = "[DONE]" \/ Trim(raw.v) = ""
         THEN finish(s)
         ELSE emitToken(s, Str(Trim(raw.v)), throws)
    ELSE s

\* the raw-text tail of onmessage
onRaw(s, raw, throws) ==
    IF raw.t = "string"
    THEN IF Trim(raw.v) = "[DONE]" \/ Trim(raw.v) = ""
         THEN finish(s)
         ELSE emitToken(s, raw, throws)
    ELSE s

\* an onmessage whose case 2 tests the text field where it should test the
\* token field, so that a token-event frame falls through to the raw tail
onmessage_TokenFallsThrough(s, data, throws) ==
    IF ~Truthy(data) THEN s
    ELSE LET maybe == safeParseJSON(data)
         IN  IF ~Truthy(maybe) THEN onRaw(s, data, throws)
             ELSE IF Truthy(Get(maybe, "choices")) /\ Get(maybe, "choices").t = "array"
                  THEN onChoices(s, maybe, throws)
             ELSE IF StrictEq(Get(maybe, "event"), "token")
                     /\ Get(maybe, "text").t = "string"
                  THEN emitToken(s, Get(maybe, "token"), throws)
             ELSE IF Get(maybe, "text").t = "string"
                  THEN emitToken(s, Get(maybe, "text"), throws)
             ELSE IF StrictEq(Get(maybe, "event"), "end")
                  THEN finish(s)
             ELSE onRaw(s, data, throws)

\* an onmessage that tests the "end" event before the text field
onmessage_EndBeforeText(s, data, throws) ==
    IF ~Truthy(data) THEN s
    ELSE LET maybe == safeParseJSON(data)
         IN  IF ~Truthy(maybe) THEN onRaw(s, data, throws)
             ELSE IF Truthy(Get(maybe, "choices")) /\ Get(maybe, "choices").t = "array"
                  THEN onChoices(s, maybe, throws)
             ELSE IF StrictEq(Get(maybe, "event"), "token")
                     /\ Get(maybe, "token").t = "string"
                  THEN emitToken(s, Get(maybe, "token"), throws)
             ELSE IF StrictEq(Get(maybe, "event"), "end")
                  THEN finish(s)
             ELSE IF Get(maybe, "text").t = "string"
                  THEN emitToken(s, Get(maybe, "text"), throws)
             ELSE onRaw(s, data, throws)

\* ws.onmessage for evt.data = data; throws: the onToken callback throws
onmessage(s, data, throws) ==
    IF ~Truthy(data) THEN s
    ELSE LET maybe == safeParseJSON(data)
         IN  IF ~Truthy(maybe) THEN onRaw(s, data, throws)
             ELSE IF Truthy(Get(maybe, "choices")) /\ Get(maybe, "choices").t = "array"
                  THEN onChoices(s, maybe, throws)
             ELSE IF StrictEq(Get(maybe, "event"), "token")
                     /\ Get(maybe, "token").t = "string"
                  THEN emitToken(s, Get(maybe, "token"), throws)
             ELSE IF Get(maybe, "text").t = "string"
                  THEN emitToken(s, Get(maybe, "text"), throws)
             ELSE IF StrictEq(Get(maybe, "event"), "end")
                  THEN finish(s)
             ELSE onRaw(s, data, throws)

(***************************************************************************)
(* The chat view and transcript (handleSendMessage and its helpers).       *)
(* An element of #chat-messages is [cls, turn, text]: cls is "user",       *)
(* "bot", "typing" (the #typing-indicator) or "streaming" (the streaming   *)
(* bubble, whose content is the tokens its onToken callback has appended). *)
(* turn, the turn that created the element, is history.                    *)
(***************************************************************************)
UserMessages == { "hi", "my skills?" }

Replies == { "Hello!" }

Apology == "Sorry, I'm having trouble connecting. Please verify the API key and network."

\* buildChatContextMessage(enhancedMessage): the prompt built from the message
buildChatContextMessage(message) == "[context] " \o message

\* buildChatSystemPrompt()
buildChatSystemPrompt == "CHAT_SYSTEM_PROMPT"

\* the text an HTML fragment appended by innerHTML += token renders as
HtmlText(token) ==
    CASE token = "R&amp;D" -> "R&D"
      [] OTHER -> token

RECURSIVE ContainerText(_)
\* streamingContainer.textContent after the onToken calls
ContainerText(calls) ==
    IF calls = <<>> THEN ""
    ELSE HtmlText(Head(calls).arg) \o ContainerText(Tail(calls))

\* the chat state as one value
Chat ==
    [ pc |-> pc, msgs |-> chatMessages, hist |-> chatHistory,
      dis |-> sendDisabled, http |-> httpCalls ]

SetChat(c) ==
    /\ pc' = c.pc
    /\ chatMessages' = c.msgs
    /\ chatHistory' = c.hist
    /\ sendDisabled' = c.dis
    /\ httpCalls' = c.http

RECURSIVE RemoveFirstCls(_, _, _)
\* seq without its first element of class cls created by a turn in ts
RemoveFirstCls(seq, cls, ts) ==
    IF seq = <<>> THEN <<>>
    ELSE IF Head(seq).cls = cls /\ Head(seq).turn \in ts THEN Tail(seq)
    ELSE <<Head(seq)>> \o RemoveFirstCls(Tail(seq), cls, ts)

addMessage(c, t, text, isUser) ==
    [c EXCEPT !.msgs = Append(@, [cls |-> IF isUser THEN "user" ELSE "bot",
                                  turn |-> t, text |-> text])]

showTypingIndicator(c, t) ==
    [c EXCEPT !.msgs = Append(@, [cls |-> "typing", turn |-> t, text |-> ""])]

\* removes the first element with id typing-indicator, whoever created it
hideTypingIndicator(c) ==
    [c EXCEPT !.msgs = RemoveFirstCls(@, "typing", Turns)]

addStreamingMessageContainer(c, t) ==
    LET h == hideTypingIndicator(c)
    IN  [h EXCEPT !.msgs = Append(@, [cls |-> "streaming", turn |-> t, text |-> ""])]

\* a catch block that leaves the streaming container in place
removeStreamingContainer_Skip(c, t) == c

\* streamingContainer.remove(), for the container of turn t
removeStreamingContainer(c, t) ==
    [c EXCEPT !.msgs = RemoveFirstCls(@, "streaming", {t})]

\* chatHistory.push({ text, isUser }); turn, the pushing turn, is history
pushHistory(c, t, text, isUser) ==
    [c EXCEPT !.hist = Append(@, [text |-> text, isUser |-> isUser, turn |-> t])]

\* the history array of startPayload
startHistory(hist) ==
    [i \in 1..Len(hist) |->
        [role |-> IF hist[i].isUser THEN "user" ELSE "model", text |-> hist[i].text]]

\* callGeminiAPI(userPrompt, history, systemPrompt) up to its fetch; the call
\* is logged with the request body it posts (prompt, history) and with the
\* arguments it was given (userPrompt, chatHistory, systemPrompt)
callGeminiAPI(c, t, userPrompt, history, systemPrompt) ==
    LET combinedPrompt ==
            IF systemPrompt # ""
            THEN systemPrompt \o "\n\nUser message:\n" \o userPrompt
            ELSE userPrompt
        formattedHistory ==
            [i \in 1..Len(history) |->
                [role |-> IF history[i].isUser THEN "user" ELSE "model",
                 text |-> history[i].text]]
    IN  [c EXCEPT !.http = Append(@,
            [turn |-> t, result |-> "pending", prompt |-> combinedPrompt,
             history |-> Append(formattedHistory,
                                [role |-> "user", text |-> combinedPrompt]),
             userPrompt |-> userPrompt, chatHistory |-> history,
             systemPrompt |-> systemPrompt])]

\* the message handleSendMessage of turn t was called with
messageOf(c, t) ==
    LET i == CHOOSE i \in 1..Len(c.msgs) :
                 c.msgs[i].cls = "user" /\ c.msgs[i].turn = t
    IN  c.msgs[i].text

\* handleSendMessage after `await streamGeminiResponseViaProxy` settles: the
\* success path to the end of the handler, or the catch up to its await
afterStream(c, t, s) ==
    IF s.promise.state = "fulfilled"
    THEN LET finalText == ContainerText(s.onTokenCalls)
             c1 == hideTypingIndicator(pushHistory(c, t, finalText, FALSE))
         IN  [c1 EXCEPT !.dis = FALSE, !.pc[t] = "done"]
    ELSE LET c1 == showTypingIndicator(removeStreamingContainer(c, t), t)
             c2 == callGeminiAPI(c1, t, buildChatContextMessage(messageOf(c, t)),
                                 c1.hist, buildChatSystemPrompt)
         IN  [c2 EXCEPT !.pc[t] = "awaitFallback"]

\* the outcome ("ok" or "failed") of the callGeminiAPI call of turn t: history
httpResult(c, t, result) ==
    [c EXCEPT !.http = [i \in 1..Len(@) |->
                           IF @[i].turn = t THEN [@[i] EXCEPT !.result = result]
                           ELSE @[i]]]

\* the fallback's continuation when callGeminiAPI returns reply
afterFallbackReply(c, t, reply) ==
    LET c1 == pushHistory(addMessage(hideTypingIndicator(c), t, reply, FALSE),
                          t, reply, FALSE)
        c2 == hideTypingIndicator(c1)
    IN  [c2 EXCEPT !.dis = FALSE, !.pc[t] = "done"]

\* the outer catch when callGeminiAPI throws
afterFallbackError(c, t) ==
    LET c1 == addMessage(hideTypingIndicator(c), t, Apology, FALSE)
    IN  [c1 EXCEPT !.dis = FALSE, !.pc[t] = "done"]

\* handleSendMessage from its start to its first await
handleSendMessage(c, t, message) ==
    LET c1 == pushHistory(addMessage(c, t, message, TRUE), t, message, TRUE)
        c2 == showTypingIndicator([c1 EXCEPT !.dis = TRUE], t)
    IN  [addStreamingMessageContainer(c2, t) EXCEPT !.pc[t] = "awaitStream"]

\* the startPayload handleSendMessage builds, given the chat state it sees
startPayloadOf(c, message) ==
    [ prompt |-> buildChatContextMessage(message),
      history |-> startHistory(c.hist),
      model |-> "gemini-2.0-flash", stream |-> TRUE ]

(***************************************************************************)
(* Actions. Each is one task of the event loop: the event handler and,     *)
(* when it settles the promise a turn awaits, the continuation of          *)
(* handleSendMessage that runs as a microtask of the same task.            *)
(***************************************************************************)
\* a session no chat turn awaits (streamGeminiResponseViaProxy called alone)
Direct(t) == pc[t] = "idle"

\* the session of turn t becomes s2
Deliver(t, s2) ==
    /\ session' = [session EXCEPT ![t] = s2]
    /\ IF pc[t] = "awaitStream" /\ s2.promise.state # "pending"
       THEN SetChat(afterStream(Chat, t, s2))
       ELSE UNCHANGED chatVars
    /\ UNCHANGED uiVars

\* a call of streamGeminiResponseViaProxy outside any chat turn
OpenDirect(t) ==
    /\ Direct(t)
    /\ ~session[t].created
    /\ \E ctorThrows \in BOOLEAN :
          session' = [session EXCEPT ![t] =
                         streamGeminiResponseViaProxy(<<>>, ctorThrows)]
    /\ UNCHANGED chatVars
    /\ UNCHANGED uiVars

\* handleSendMessage is called for a non-empty message
Send(t, message, ctorThrows) ==
    /\ pc[t] = "idle"
    /\ ~session[t].created
    /\ \A u \in Turns : u < t => pc[u] # "idle"
    /\ LET c == handleSendMessage(Chat, t, message)
           s == streamGeminiResponseViaProxy(startPayloadOf(c, message), ctorThrows)
       IN  /\ session' = [session EXCEPT ![t] = s]
           /\ SetChat(IF s.promise.state = "pending" THEN c
                      ELSE afterStream(c, t, s))
    /\ UNCHANGED uiVars

\* a click on the send button (a disabled button dispatches no click)
ClickSend(t) ==
    /\ ~sendDisabled
    /\ \E m \in UserMessages, ctorThrows \in BOOLEAN : Send(t, m, ctorThrows)

\* Enter pressed in the input field
KeypressEnter(t) ==
    \E m \in UserMessages, ctorThrows \in BOOLEAN : Send(t, m, ctorThrows)

\* the connection is established
WsOpen(t) ==
    /\ session[t].ws = "CONNECTING"
    /\ Deliver(t, onopen([session[t] EXCEPT !.ws = "OPEN"]))

\* a message event
WsMessage(t) ==
    /\ session[t].ws = "OPEN"
    /\ Len(session[t].frames) < (IF Direct(t) THEN MaxFrames ELSE MaxChatFrames)
    /\ \E data \in (IF Direct(t) THEN Frames ELSE ChatFrames),
          throws \in (IF Direct(t) THEN BOOLEAN ELSE {FALSE}) :
          Deliver(t, onmessage([session[t] EXCEPT !.frames = Append(@, data)],
                               data, throws))

\* a frame reaches the WebSocket after close() was called: readyState is
\* CLOSING, so no message event is dispatched and no handler runs
WsLateMessage(t) ==
    /\ session[t].ws = "CLOSING"
    /\ Len(session[t].frames) + session[t].late
          < (IF Direct(t) THEN MaxFrames ELSE MaxChatFrames)
    /\ session' = [session EXCEPT ![t].late = @ + 1]
    /\ UNCHANGED chatVars
    /\ UNCHANGED uiVars

\* the connection closes cleanly: a close event
WsClose(t) ==
    /\ session[t].ws \in {"OPEN", "CLOSING"}
    /\ Deliver(t, onclose([session[t] EXCEPT !.ws = "CLOSED"]))

\* the connection fails: an error event, then a close event
WsFail(t) ==
    /\ session[t].ws \in {"CONNECTING", "OPEN", "CLOSING"}
    /\ Deliver(t, onclose(onerror([session[t] EXCEPT !.ws = "CLOSED",
                                                      !.wsErrored = TRUE])))

\* the deadline timer fires
TimerFires(t) ==
    /\ session[t].timer = "pending"
    /\ Deliver(t, timerCallback([session[t] EXCEPT !.timer = "fired"]))

\* the blocking call returns a reply
FallbackReply(t) ==
    /\ pc[t] = "awaitFallback"
    /\ \E reply \in Replies :
          SetChat(afterFallbackReply(httpResult(Chat, t, "ok"), t, reply))
    /\ UNCHANGED session
    /\ UNCHANGED uiVars

\* the blocking call throws (network failure or a non-ok response)
FallbackError(t) ==
    /\ pc[t] = "awaitFallback"
    /\ SetChat(afterFallbackError(httpResult(Chat, t, "failed"), t))
    /\ UNCHANGED session
    /\ UNCHANGED uiVars

\* the state of the page after DOMContentLoaded and a selection of files
PageState(files) ==
    /\ session = [t \in Turns |-> NoSession]
    /\ pc = [t \in Turns |-> "idle"]
    /\ chatMessages = <<>>
    /\ chatHistory = <<>>
    /\ sendDisabled = FALSE
    /\ httpCalls = <<>>
    /\ modalCvData = <<>>
    /\ activeCvIndex = 0
    /\ dom = [rendered |-> FALSE, name |-> "",
              lists |-> [sec \in {"experience", "education", "certifications",
                                  "skills"} |-> <<>>]]
    /\ modalOpen = FALSE
    /\ submittedCvData = <<>>
    /\ uploadedCvs = <<>>
    /\ edits = 0
    /\ submits = 0
    /\ gen = [pc |-> "idle", files |-> <<>>, done |-> 0, failedAt |-> 0]
    /\ bubbles = <<>>
    /\ fileInput = files
    /\ generateDisabled = FALSE
    /\ recoRuns = <<>>
    /\ lastRecommendations = 0
    /\ selections = 0

\* the state of the page after DOMContentLoaded: no file is selected
InitPage == PageState(<<>>)

\* no call of upsertByName under study
NoStoreCall ==
    [existing |-> <<>>, incoming |-> <<>>, result |-> <<>>, called |-> FALSE,
     mutated |-> 0]

Init ==
    /\ InitPage
    /\ storeCall = NoStoreCall

\* one stream session, studied alone
NextSession ==
    \/ OpenDirect(1)
    \/ WsOpen(1)
    \/ WsMessage(1)
    \/ WsLateMessage(1)
    \/ WsClose(1)
    \/ WsFail(1)
    \/ TimerFires(1)

SpecSession == Init /\ [][NextSession]_vars

\* setTimeout: a timer that is not cancelled by clearTimeout fires eventually
TimerFairness == \A t \in Turns : WF_vars(TimerFires(t))

\* one stream session whose deadline timer fires unless it is cancelled
SpecSessionFair == SpecSession /\ TimerFairness

\* the chat: turns of handleSendMessage, each with its stream session (the
\* frames the WebSocket drops after close() run no code and are left out)
NextChat ==
    \E t \in ChatTurns :
        \/ ClickSend(t)
        \/ KeypressEnter(t)
        \/ WsOpen(t)
        \/ WsMessage(t)
        \/ WsClose(t)
        \/ WsFail(t)
        \/ TimerFires(t)
        \/ FallbackReply(t)
        \/ FallbackError(t)

SpecChat == Init /\ [][NextChat]_vars

\* the calls of handleSendMessage and the settling of what they await: the
\* connection of the stream session opens, closes or fails, and the blocking
\* call returns or throws (the frames of the stream are left out)
NextTurns ==
    \E t \in Turns :
        \/ ClickSend(t)
        \/ KeypressEnter(t)
        \/ WsOpen(t)
        \/ WsClose(t)
        \/ WsFail(t)
        \/ FallbackReply(t)
        \/ FallbackError(t)

SpecTurns == Init /\ [][NextTurns]_vars

(***************************************************************************)
(* The CV review modal and the submitted record set (ui.js).               *)
(***************************************************************************)

\* the most rows a list of the rendered view is grown to by the add button
MaxRows == 2

\* the most add-row and typing edits in one run
MaxEdits == 1

\* the most submits in one run
MaxSubmits == 2

\* the four sections of renderCvDetails and readCvFromDom, and their inputs
SectionSet == {"experience", "education", "certifications", "skills"}

SecFields(sec) ==
    CASE sec = "experience"     -> {"jobTitle", "company", "description", "years"}
      [] sec = "education"      -> {"degreeField", "school"}
      [] sec = "certifications" -> {"title"}
      [] sec = "skills"         -> {"title"}

\* item[name] || "" for an item whose fields are strings
Field(item, name) == IF name \in DOMAIN item THEN item[name] ELSE ""

\* a || b for strings
OrStr(a, b) == IF a # "" THEN a ELSE b

\* the texts typed into an input, and the inputs they are typed into
TypedValues == {"Lead"}

TypedFields == {"jobTitle", "description"}

\* the bullet sign U+2022 and the space that follows it
Bullet == "\\u2022 "

\* formatDescriptionAsBullets on the description texts of this model: one
\* bullet per sentence, bullets already there are stripped and set again
formatDescriptionAsBullets(text) ==
    CASE text = ""                     -> ""
      [] text = "Led team"             -> Bullet \o "Led team"
      [] text = Bullet \o "Led team"   -> Bullet \o "Led team"
      [] text = "Lead"                 -> Bullet \o "Lead"
      [] text = Bullet \o "Lead"       -> Bullet \o "Lead"
      [] OTHER                         -> text

\* the selected files, in selection order
SelectedFiles == <<"resume.pdf", "other.pdf">>

\* the selections the user makes in the file dialog: two files, one file, none
Selections == { SelectedFiles, <<"other.pdf">>, <<>> }

\* file selections (change and drop events) in one run of the page
MaxSelections == 2

\* recommendation generations started in one run of the page
MaxRuns == 2

\* what parseCvIntoStructuredSections returns for each file
StructuredSections(fileName) ==
    IF fileName = "resume.pdf"
    THEN [experience |-> << [jobTitle |-> "Dev", company |-> "Acme",
                             description |-> "Led team", period |-> "2020-2022"],
                            [title |-> "QA", companyName |-> "Beta",
                             years |-> "2019"] >>,
          education |-> <<>>,
          certifications |-> <<>>,
          skills |-> <<>>]
    ELSE [experience |-> <<>>,
          education |-> <<>>,
          certifications |-> << [title |-> "PMP", issuer |-> "PMI"] >>,
          skills |-> <<>>]

\* calculateYearsFromPeriod of storage-catalog.js, on the periods above
calculateYearsFromPeriod(period) ==
    IF period = "2020-2022" THEN 2 ELSE 0

RECURSIVE SumDurations(_)
SumDurations(experience) ==
    IF experience = <<>> THEN 0
    ELSE calculateYearsFromPeriod(
             OrStr(Field(Head(experience), "period"), Field(Head(experience), "years")))
         + SumDurations(Tail(experience))

\* calculateTotalExperience of storage-catalog.js
calculateTotalExperience(experience) == SumDurations(experience)

\* the uploadedCvs entries pushed by the file loop of the Generate handler
analyzedCvs ==
    [i \in 1..Len(SelectedFiles) |->
        [name |-> SelectedFiles[i],
         structured |-> StructuredSections(SelectedFiles[i])]]

\* "Transform for modal": uploadedCvs.map(...)
cvResultsForModal(uploaded) ==
    [i \in 1..Len(uploaded) |->
        LET s == uploaded[i].structured
        IN  [name |-> uploaded[i].name,
             totalYearsExperience |-> calculateTotalExperience(s.experience),
             experience |->
                [j \in 1..Len(s.experience) |->
                    LET exp == s.experience[j]
                        period == OrStr(Field(exp, "period"), Field(exp, "years"))
                    IN  [jobTitle |-> OrStr(Field(exp, "jobTitle"), Field(exp, "title")),
                         company |-> OrStr(Field(exp, "company"),
                                           Field(exp, "companyName")),
                         description |-> Field(exp, "description"),
                         years |-> period,
                         duration |-> calculateYearsFromPeriod(period)]],
             education |->
                [j \in 1..Len(s.education) |->
                    LET edu == s.education[j]
                        degree == OrStr(Field(edu, "degree"), Field(edu, "title"))
                    IN  [degreeField |->
                            IF degree # ""
                            THEN degree \o (IF Field(edu, "major") # ""
                                            THEN " in " \o Field(edu, "major")
                                            ELSE "")
                            ELSE Field(edu, "major"),
                         school |-> OrStr(Field(edu, "school"),
                                          Field(edu, "institution"))]],
             certifications |->
                [j \in 1..Len(s.certifications) |->
                    LET cert == s.certifications[j]
                    IN  [title |-> Field(cert, "title")
                                   \o (IF Field(cert, "issuer") # ""
                                       THEN " - " \o Field(cert, "issuer") ELSE "")
                                   \o (IF Field(cert, "year") # ""
                                       THEN " (" \o Field(cert, "year") \o ")"
                                       ELSE "")]],
             skills |->
                [j \in 1..Len(s.skills) |->
                    [title |-> Field(s.skills[j], "title")]]]]

\* the value undefined where a record is expected
UndefinedCv == [undefined |-> TRUE]

\* arr[index] for a 0-based index
JsAt(arr, index) ==
    IF index + 1 \in 1..Len(arr) THEN arr[index + 1] ELSE UndefinedCv

\* arr[index] = value for a 0-based index; the array grows to hold it
JsPut(arr, index, value) ==
    [k \in 1..(IF index + 1 > Len(arr) THEN index + 1 ELSE Len(arr)) |->
        IF k = index + 1 THEN value
        ELSE IF k <= Len(arr) THEN arr[k] ELSE UndefinedCv]

\* #cvResultsContainer before anything is rendered into it
EmptyView ==
    [rendered |-> FALSE, name |-> "", lists |-> [sec \in SectionSet |-> <<>>]]

\* the inputs of one createItemRow / createSkillBubble element, by data-field
renderRow(item, sec) ==
    [f \in SecFields(sec) |->
        IF f = "description"
        THEN formatDescriptionAsBullets(Field(item, f))
        ELSE Field(item, f)]

\* renderCvDetails(cv): the lists, with ids cv.name + "_" + section + "_list"
renderCvDetails(cv) ==
    IF cv = UndefinedCv THEN EmptyView
    ELSE [rendered |-> TRUE, name |-> cv.name,
          lists |-> [sec \in SectionSet |->
                        LET items == IF sec \in DOMAIN cv THEN cv[sec] ELSE <<>>
                        IN  [i \in 1..Len(items) |-> renderRow(items[i], sec)]]]

\* the state of the page: the modal state, the rendered view and the lists
UI ==
    [ modal |-> modalCvData, active |-> activeCvIndex, view |-> dom,
      open |-> modalOpen, submitted |-> submittedCvData,
      uploaded |-> uploadedCvs, edits |-> edits, submits |-> submits,
      gen |-> gen, bubbles |-> bubbles, files |-> fileInput,
      disabled |-> generateDisabled, runs |-> recoRuns,
      last |-> lastRecommendations, selections |-> selections ]

SetUI(u) ==
    /\ modalCvData' = u.modal
    /\ activeCvIndex' = u.active
    /\ dom' = u.view
    /\ modalOpen' = u.open
    /\ submittedCvData' = u.submitted
    /\ uploadedCvs' = u.uploaded
    /\ edits' = u.edits
    /\ submits' = u.submits
    /\ gen' = u.gen
    /\ bubbles' = u.bubbles
    /\ fileInput' = u.files
    /\ generateDisabled' = u.disabled
    /\ recoRuns' = u.runs
    /\ lastRecommendations' = u.last
    /\ selections' = u.selections
    /\ UNCHANGED storeCall

\* deepClone(obj): a copy that shares nothing with obj; values here have no
\* identity, so the copy is the value
deepClone(obj) == obj

\* a map.set that merges the new record over the one already there
MapSet_Merge(list, cv) ==
    IF \E i \in 1..Len(list) : list[i].name = cv.name
    THEN [i \in 1..Len(list) |->
             IF list[i].name = cv.name
             THEN [k \in DOMAIN list[i] \cup DOMAIN cv |->
                      IF k \in DOMAIN cv THEN cv[k] ELSE list[i][k]]
             ELSE list[i]]
    ELSE Append(list, cv)

\* map.set(cv.name, cv): replaces the value at the name's place, or appends
MapSet(list, cv) ==
    IF \E i \in 1..Len(list) : list[i].name = cv.name
    THEN [i \in 1..Len(list) |-> IF list[i].name = cv.name THEN cv ELSE list[i]]
    ELSE Append(list, cv)

RECURSIVE MapSetAll(_, _)
MapSetAll(list, cvs) ==
    IF cvs = <<>> THEN list
    ELSE MapSetAll(MapSet(list, Head(cvs)), Tail(cvs))

\* an upsertByName that enters the incoming records into the map first
upsertByName_IncomingFirst(existing, incoming) ==
    MapSetAll(MapSetAll(<<>>, incoming), existing)

\* an upsertByName that appends the incoming records to the existing ones
upsertByName_Appends(existing, incoming) == existing \o incoming

upsertByName(existing, incoming) ==
    MapSetAll(MapSetAll(<<>>, existing), incoming)

\* a readCvFromDom that writes the input values of each row over the entry
\* the record had at that position, keeping the entry's other fields
readCvFromDom_MergesEntries(cv, view) ==
    IF cv = UndefinedCv THEN cv
    ELSE LET found == view.rendered /\ view.name = cv.name
             merged(sec) ==
                 [i \in 1..Len(view.lists[sec]) |->
                     LET row == view.lists[sec][i]
                         prior == IF sec \in DOMAIN cv /\ i <= Len(cv[sec])
                                  THEN cv[sec][i] ELSE row
                     IN  [f \in DOMAIN prior \cup DOMAIN row |->
                             IF f \in DOMAIN row THEN row[f] ELSE prior[f]]]
         IN  [k \in DOMAIN cv \cup (IF found THEN SectionSet ELSE {}) |->
                 IF found /\ k \in SectionSet THEN merged(k) ELSE cv[k]]

\* readCvFromDom(cv) against the rendered view: a list is found by its id
readCvFromDom(cv, view) ==
    IF cv = UndefinedCv THEN cv
    ELSE LET found == view.rendered /\ view.name = cv.name
         IN  [k \in DOMAIN cv \cup (IF found THEN SectionSet ELSE {}) |->
                 IF found /\ k \in SectionSet THEN view.lists[k] ELSE cv[k]]

\* a capture that also writes the captured record into the submitted set, as
\* if modalCvData were the submitted array itself and not a clone of it
syncActiveCvFromDom_WritesThrough(u) ==
    IF Len(u.modal) = 0 THEN u
    ELSE LET updated == readCvFromDom(JsAt(u.modal, u.active), u.view)
         IN  [u EXCEPT !.modal = JsPut(@, u.active, updated),
                       !.submitted =
                           [i \in 1..Len(@) |->
                               IF @[i].name = updated.name THEN updated ELSE @[i]]]

syncActiveCvFromDom(u) ==
    IF Len(u.modal) = 0 THEN u
    ELSE [u EXCEPT !.modal =
             JsPut(@, u.active, readCvFromDom(JsAt(u.modal, u.active), u.view))]

\* an openCvModal that renders the record at initialIndex and leaves
\* activeCvIndex as it was
openCvModal_KeepsIndex(u, allCvResults, initialIndex) ==
    LET data == deepClone(allCvResults)
    IN  [u EXCEPT !.modal = data,
                  !.open = TRUE,
                  !.view = renderCvDetails(
                               IF JsAt(data, initialIndex) # UndefinedCv
                               THEN JsAt(data, initialIndex) ELSE JsAt(data, 0))]

openCvModal(u, allCvResults, initialIndex) ==
    LET data == deepClone(allCvResults)
    IN  [u EXCEPT !.modal = data,
                  !.active = initialIndex,
                  !.open = TRUE,
                  !.view = renderCvDetails(
                               IF JsAt(data, initialIndex) # UndefinedCv
                               THEN JsAt(data, initialIndex) ELSE JsAt(data, 0))]

\* a tab click handler that switches without capturing the view
tabClick_NoSync(u, index) ==
    [u EXCEPT !.active = index, !.view = renderCvDetails(JsAt(u.modal, index))]

\* the click handler of the tab with data-index = index
tabClick(u, index) ==
    LET u1 == syncActiveCvFromDom(u)
    IN  [u1 EXCEPT !.active = index,
                   !.view = renderCvDetails(JsAt(u1.modal, index))]

\* the recommendation generation of a handler, from getRulesFromUI to its
\* first await, parseAndApplyRules (the rule inputs hold the default rules).
\* A run is [by, state, cvs]: by is the handler, state is "rules" (awaiting
\* parseAndApplyRules), "analyze" (awaiting analyzeCvsWithAI), "done" or
\* "failed", cvs is the list passed to analyzeCvsWithAI
startRun(u, by) ==
    [u EXCEPT !.runs = Append(@, [by |-> by, state |-> "rules", cvs |-> <<>>])]

\* the selection of run i is resolved: parseAndApplyRules returns, the rules
\* are saved and analyzeCvsWithAI(uploadedCvs, ...) is called
rulesParsed(u, i) ==
    [u EXCEPT !.runs[i] = [@ EXCEPT !.state = "analyze", !.cvs = u.uploaded]]

\* the finally block of the handler of a run and the statements after it
endRun(u, i) ==
    IF u.runs[i].by = "generate"
    THEN [u EXCEPT !.gen = [@ EXCEPT !.pc = "idle"],
                   !.disabled = (u.files = <<>>)]
    ELSE [u EXCEPT !.disabled = FALSE]

\* analyzeCvsWithAI returns for run i: lastRecommendations is written, saved
\* and displayed
recoDone(u, i) ==
    endRun([u EXCEPT !.runs[i] = [@ EXCEPT !.state = "done"], !.last = i], i)

\* parseAndApplyRules or analyzeCvsWithAI throws for run i
recoFails(u, i) ==
    endRun([u EXCEPT !.runs[i] = [@ EXCEPT !.state = "failed"]], i)

\* the change handler of the file input, for the files now selected
fileInputChange(u, files) ==
    IF Len(files) > 0
    THEN [u EXCEPT !.files = files, !.disabled = FALSE, !.selections = @ + 1]
    ELSE [u EXCEPT !.files = files, !.uploaded = <<>>, !.disabled = TRUE,
                   !.selections = @ + 1]

\* the drop handler of the upload area: files are dropped on it
fileDrop(u, files) ==
    IF Len(files) > 0
    THEN [u EXCEPT !.files = files, !.disabled = FALSE, !.selections = @ + 1]
    ELSE [u EXCEPT !.files = files, !.selections = @ + 1]

\* renderSubmittedCvBubbles(allResults): one bubble per record, showing its
\* name; idx is the position its two click handlers have closed over
renderSubmittedCvBubbles(allResults) ==
    [i \in 1..Len(allResults) |-> [name |-> allResults[i].name, idx |-> i - 1]]

\* a submit handler that upserts without capturing the view
submitCvReview_NoSync(u) ==
    LET submitted == upsertByName(u.submitted, deepClone(u.modal))
    IN  startRun([u EXCEPT !.submitted = submitted,
                           !.bubbles = renderSubmittedCvBubbles(submitted),
                           !.open = FALSE], "submit")

\* a submit handler that also replaces uploadedCvs by the submitted records
submitCvReview_WritesUploaded(u) ==
    LET u1 == syncActiveCvFromDom(u)
        submitted == upsertByName(u1.submitted, deepClone(u1.modal))
    IN  startRun([u1 EXCEPT !.submitted = submitted,
                            !.uploaded = submitted,
                            !.bubbles = renderSubmittedCvBubbles(submitted),
                            !.open = FALSE], "submit")

\* the click handler of #submitCvReview up to its first await: the modal is
\* closed and the recommendation generation starts
submitCvReview(u) ==
    LET u1 == syncActiveCvFromDom(u)
        allResults == deepClone(u1.modal)
        submitted == upsertByName(u1.submitted, allResults)
    IN  startRun([u1 EXCEPT !.submitted = submitted,
                            !.bubbles = renderSubmittedCvBubbles(submitted),
                            !.open = FALSE], "submit")

\* submittedCvData.filter((_, i) => i !== idx)
filterOutIndex(list, idx) ==
    LET keep == { i \in 1..Len(list) : i # idx + 1 }
    IN  [k \in 1..Cardinality(keep) |->
            list[CHOOSE i \in keep : Cardinality({ j \in keep : j < i }) = k - 1]]

\* a delete handler that removes the record and the clicked bubble and leaves
\* the other bubbles as they were rendered
deleteBubble_NoRerender(u, idx) ==
    [u EXCEPT !.submitted = filterOutIndex(@, idx),
              !.bubbles = SelectSeq(@, LAMBDA b : b.idx # idx)]

\* the delete button of the bubble whose handler closed over idx (0-based)
deleteBubble(u, idx) ==
    LET submitted == filterOutIndex(u.submitted, idx)
    IN  [u EXCEPT !.submitted = submitted,
                  !.bubbles = renderSubmittedCvBubbles(submitted)]

\* a delete button that blanks the inputs of the row and leaves the row in
\* the list
removeRow_Tombstone(u, sec, i) ==
    [u EXCEPT !.view.lists[sec][i] = [f \in SecFields(sec) |-> ""]]

\* row.remove() / bubble.remove() on the i-th row of a list
removeRow(u, sec, i) ==
    [u EXCEPT !.view.lists[sec] =
        [k \in 1..(Len(@) - 1) |-> IF k < i THEN @[k] ELSE @[k + 1]]]

\* the add button of a section: a row for an item with every field ""
addRow(u, sec) ==
    [u EXCEPT !.view.lists[sec] =
                  Append(@, renderRow([f \in SecFields(sec) |-> ""], sec)),
              !.edits = @ + 1]

\* the user types text into one input and leaves it; the description field
\* is put into bullets again on blur
typeInto(u, sec, i, f, text) ==
    [u EXCEPT !.view.lists[sec][i][f] =
                  IF f = "description" THEN formatDescriptionAsBullets(text)
                  ELSE text,
              !.edits = @ + 1]

\* the Generate click handler up to its first await, with files selected and
\* nothing analyzed yet (Step 2): the button is disabled and the file loop
\* starts.  gen.failedAt is history: the position of the file that failed
generateClick(u) ==
    [u EXCEPT !.uploaded = <<>>,
              !.disabled = TRUE,
              !.gen = [pc |-> "extracting", files |-> u.files, done |-> 0,
                       failedAt |-> 0]]

\* the Generate click handler with no file selected (Step 1)
generateNoFiles(u) == [u EXCEPT !.disabled = TRUE]

\* the Generate click handler up to its first await when uploadedCvs holds
\* records (Step 3): the recommendation generation starts
generateRecommend(u) ==
    startRun([u EXCEPT !.disabled = TRUE,
                       !.gen = [@ EXCEPT !.pc = "recommending"]], "generate")

\* a catch block that drops the records of the files analyzed before the
\* failure
fileFails_DropsAnalyzed(u) ==
    [u EXCEPT !.uploaded = <<>>,
              !.disabled = (u.files = <<>>),
              !.gen = [@ EXCEPT !.pc = "idle", !.failedAt = u.gen.done + 1]]

\* a catch block that opens the review modal on the records analyzed before
\* the failure
fileFails_OpensModal(u) ==
    [openCvModal(u, cvResultsForModal(u.uploaded), 0)
        EXCEPT !.disabled = (u.files = <<>>),
               !.gen = [@ EXCEPT !.pc = "idle", !.failedAt = u.gen.done + 1]]

\* extractTextFromFile or parseCvIntoStructuredSections throws for the next
\* file: the loop is left for the catch and finally blocks
fileFails(u) ==
    [u EXCEPT !.disabled = (u.files = <<>>),
              !.gen = [@ EXCEPT !.pc = "idle", !.failedAt = u.gen.done + 1]]

\* the next file is extracted and structured and its record is pushed; after
\* the last file the records are transformed and the review modal opens
fileAnalyzed(u) ==
    LET file == u.gen.files[u.gen.done + 1]
        u1 == [u EXCEPT !.uploaded =
                            Append(@, [name |-> file,
                                       structured |-> StructuredSections(file)]),
                        !.gen = [@ EXCEPT !.done = @ + 1]]
    IN  IF u1.gen.done < Len(u.gen.files) THEN u1
        ELSE [openCvModal(u1, cvResultsForModal(u1.uploaded), 0)
                 EXCEPT !.disabled = (u.files = <<>>),
                        !.gen = [@ EXCEPT !.pc = "idle"]]

\* a click on Generate with files selected and nothing analyzed (a disabled
\* button dispatches no click; one run of the handler is followed at a time)
GenerateClick ==
    /\ ~modalOpen
    /\ ~generateDisabled
    /\ gen.pc = "idle"
    /\ fileInput # <<>>
    /\ uploadedCvs = <<>>
    /\ SetUI(generateClick(UI))
    /\ UNCHANGED appVars

\* a click on Generate with no file selected
GenerateNoFilesClick ==
    /\ ~modalOpen
    /\ ~generateDisabled
    /\ gen.pc = "idle"
    /\ fileInput = <<>>
    /\ SetUI(generateNoFiles(UI))
    /\ UNCHANGED appVars

\* a click on Generate with files selected and records already analyzed
GenerateRecommendClick ==
    /\ ~modalOpen
    /\ ~generateDisabled
    /\ gen.pc = "idle"
    /\ fileInput # <<>>
    /\ uploadedCvs # <<>>
    /\ Len(recoRuns) < MaxRuns
    /\ SetUI(generateRecommend(UI))
    /\ UNCHANGED appVars

\* the awaited parseAndApplyRules of a run returns
RulesParsed ==
    /\ \E i \in 1..Len(recoRuns) :
          /\ recoRuns[i].state = "rules"
          /\ SetUI(rulesParsed(UI, i))
    /\ UNCHANGED appVars

\* the awaited analyzeCvsWithAI of a run returns
RecoDone ==
    /\ \E i \in 1..Len(recoRuns) :
          /\ recoRuns[i].state = "analyze"
          /\ SetUI(recoDone(UI, i))
    /\ UNCHANGED appVars

\* the awaited call of a run throws
RecoFails ==
    /\ \E i \in 1..Len(recoRuns) :
          /\ recoRuns[i].state \in {"rules", "analyze"}
          /\ SetUI(recoFails(UI, i))
    /\ UNCHANGED appVars

\* the user selects files in the file dialog, or clears the selection
FileInputChange ==
    /\ ~modalOpen
    /\ selections < MaxSelections
    /\ \E files \in Selections :
          /\ files # fileInput
          /\ SetUI(fileInputChange(UI, files))
    /\ UNCHANGED appVars

\* the user drops files, or something that carries no file, on the upload
\* area
FileDrop ==
    /\ ~modalOpen
    /\ selections < MaxSelections
    /\ \E files \in Selections :
          /\ files # fileInput
          /\ SetUI(fileDrop(UI, files))
    /\ UNCHANGED appVars

\* the awaited extraction and structuring of the next file succeed
FileAnalyzed ==
    /\ gen.pc = "extracting"
    /\ SetUI(fileAnalyzed(UI))
    /\ UNCHANGED appVars

\* the awaited extraction or structuring of the next file fails
FileFails ==
    /\ gen.pc = "extracting"
    /\ SetUI(fileFails(UI))
    /\ UNCHANGED appVars

\* a click on a tab of the open modal
TabClick ==
    /\ modalOpen
    /\ \E index \in 0..(Len(modalCvData) - 1) : SetUI(tabClick(UI, index))
    /\ UNCHANGED appVars

\* a click on the delete button of a row or bubble of the rendered view
DeleteRowClick ==
    /\ modalOpen
    /\ \E sec \in SectionSet :
          \E i \in 1..Len(dom.lists[sec]) : SetUI(removeRow(UI, sec, i))
    /\ UNCHANGED appVars

\* a click on the add button of a section
AddRowClick ==
    /\ modalOpen
    /\ edits < MaxEdits
    /\ \E sec \in SectionSet :
          /\ Len(dom.lists[sec]) < MaxRows
          /\ SetUI(addRow(UI, sec))
    /\ UNCHANGED appVars

\* the user edits one input of the rendered view
TypeText ==
    /\ modalOpen
    /\ edits < MaxEdits
    /\ \E sec \in SectionSet :
          \E i \in 1..Len(dom.lists[sec]) :
             \E f \in SecFields(sec) \cap TypedFields, text \in TypedValues :
                SetUI(typeInto(UI, sec, i, f, text))
    /\ UNCHANGED appVars

\* a click on #submitCvReview
SubmitClick ==
    /\ modalOpen
    /\ submits < MaxSubmits
    /\ Len(recoRuns) < MaxRuns
    /\ SetUI([submitCvReview(UI) EXCEPT !.submits = @ + 1])
    /\ UNCHANGED appVars

\* a click on the close button or on the backdrop of the modal
CloseModal ==
    /\ modalOpen
    /\ SetUI([UI EXCEPT !.open = FALSE])
    /\ UNCHANGED appVars

\* a click on a submitted-CV bubble: the modal opens on its record
BubbleClick ==
    /\ ~modalOpen
    /\ \E b \in 1..Len(bubbles) :
          SetUI(openCvModal(UI, submittedCvData, bubbles[b].idx))
    /\ UNCHANGED appVars

\* a click on the delete button of a submitted-CV bubble
DeleteBubbleClick ==
    /\ ~modalOpen
    /\ \E b \in 1..Len(bubbles) : SetUI(deleteBubble(UI, bubbles[b].idx))
    /\ UNCHANGED appVars

\* the review modal and the submitted set
NextModal ==
    \/ GenerateClick
    \/ FileAnalyzed
    \/ FileFails
    \/ TabClick
    \/ DeleteRowClick
    \/ AddRowClick
    \/ TypeText
    \/ SubmitClick
    \/ CloseModal
    \/ BubbleClick
    \/ DeleteBubbleClick

\* the page with the files selected
InitModal ==
    /\ PageState(SelectedFiles)
    /\ storeCall = NoStoreCall

SpecModal == InitModal /\ [][NextModal]_vars

\* the review of the analyzed files: the file loop, the review modal with
\* typing and tab clicks, submits, the submitted bubbles and the
\* recommendation runs of the submit handler and of the Generate handler
NextReview ==
    \/ GenerateClick
    \/ FileAnalyzed
    \/ FileFails
    \/ TabClick
    \/ TypeText
    \/ SubmitClick
    \/ BubbleClick
    \/ DeleteBubbleClick
    \/ GenerateRecommendClick
    \/ RulesParsed
    \/ RecoDone
    \/ RecoFails

SpecReview == InitModal /\ [][NextReview]_vars

\* the page: file selection, the Generate handler, submits of the review
\* modal as it opens, the submitted bubbles and the recommendation runs
NextPage ==
    \/ FileInputChange
    \/ FileDrop
    \/ GenerateClick
    \/ GenerateNoFilesClick
    \/ GenerateRecommendClick
    \/ FileAnalyzed
    \/ FileFails
    \/ RulesParsed
    \/ RecoDone
    \/ RecoFails
    \/ SubmitClick
    \/ CloseModal
    \/ BubbleClick
    \/ DeleteBubbleClick

SpecPage == Init /\ [][NextPage]_vars

\* the Generate handler on one selection of files that stays as it is: the
\* file loop, the review modal as it opens, submits, the submitted bubbles
\* and the recommendation runs
NextGenerate ==
    \/ GenerateClick
    \/ GenerateRecommendClick
    \/ FileAnalyzed
    \/ FileFails
    \/ RulesParsed
    \/ RecoDone
    \/ RecoFails
    \/ SubmitClick
    \/ CloseModal
    \/ BubbleClick
    \/ DeleteBubbleClick

SpecGenerate == InitModal /\ [][NextGenerate]_vars

(***************************************************************************)
(* upsertByName and deepClone, studied alone: one call on argument lists   *)
(* drawn from a pool of record objects.  A record object carries oid, its  *)
(* identity: two list elements with the same oid are the same mutable      *)
(* object.                                                                 *)
(***************************************************************************)

\* the longest argument list
MaxListLen == 2

\* the pool of record objects the argument lists are drawn from
StoreObjects ==
    { [oid |-> 1, name |-> "A", experience |-> << [jobTitle |-> "Dev"] >>,
       skills |-> <<>>],
      [oid |-> 2, name |-> "A", skills |-> << [title |-> "X"] >>],
      [oid |-> 3, name |-> "B", skills |-> <<>>],
      [oid |-> 4, name |-> "C", skills |-> << [title |-> "Y"] >>] }

StoreLists == UNION { [1..n -> StoreObjects] : n \in 0..MaxListLen }

\* cv.skills.push({title: "M"}) on the object oid, seen through every list
\* that holds this object
MutateIn(list, oid) ==
    [i \in 1..Len(list) |->
        IF list[i].oid = oid
        THEN [list[i] EXCEPT !.skills = Append(@, [title |-> "M"])]
        ELSE list[i]]

\* the arguments are chosen
InitStore ==
    /\ InitPage
    /\ \E existing \in StoreLists, incoming \in StoreLists :
          storeCall = [NoStoreCall EXCEPT !.existing = existing,
                                          !.incoming = incoming]

\* result = upsertByName(existing, incoming)
CallUpsert ==
    /\ ~storeCall.called
    /\ storeCall' = [storeCall EXCEPT
                        !.result = upsertByName(storeCall.existing,
                                                storeCall.incoming),
                        !.called = TRUE]
    /\ UNCHANGED appVars
    /\ UNCHANGED pageVars

\* after the call, the caller mutates one record object of an argument list
MutateInput ==
    /\ storeCall.called
    /\ storeCall.mutated = 0
    /\ \E i \in 1..Len(storeCall.existing \o storeCall.incoming) :
          LET oid == (storeCall.existing \o storeCall.incoming)[i].oid
          IN  storeCall' = [storeCall EXCEPT
                               !.existing = MutateIn(@, oid),
                               !.incoming = MutateIn(@, oid),
                               !.result = MutateIn(@, oid),
                               !.mutated = oid]
    /\ UNCHANGED appVars
    /\ UNCHANGED pageVars

NextStore ==
    \/ CallUpsert
    \/ MutateInput

SpecStore == InitStore /\ [][NextStore]_vars

(***************************************************************************)
(* Properties.                                                             *)
(* The frame classification the specification states (section 4.1), used   *)
(* to say what a frame should do, independently of onmessage.              *)
(***************************************************************************)
\* frames the specification classifies {token}, with the token they carry
SpecToken(data) ==
    CASE data = Str(F_TokHel) -> "Hel"
      [] data = Str(F_TokLo) -> "lo"
      [] data = Str(F_TokEmpty) -> ""
      [] data = Str(F_Text) -> "abc"
      [] data = Str(F_TextAmp) -> "R&amp;D"
      [] data = Str(F_Choice) -> "Hi"
      [] data = Str(F_ChoiceFin) -> "!"
      [] data = Str(F_Plain) -> "Hello wor"
      [] data = Str(F_PlainPadded) -> " hi "

SpecTokenFrames ==
    { Str(F_TokHel), Str(F_TokLo), Str(F_TokEmpty), Str(F_Text), Str(F_TextAmp),
      Str(F_Choice), Str(F_ChoiceFin), Str(F_Plain), Str(F_PlainPadded) }

\* frames the specification classifies {terminate} and nothing else
SpecTerminateFrames == { Str(F_End), Str(F_Done), Str(F_ChoiceOnlyFin) }

\* frames that decode and match none of the recognized shapes
SpecIgnoredFrames == { Str(F_Unknown), Str(F_TokNum), Str(F_JsonNum) }

\* a choices frame whose incremental content is the empty string: it carries
\* no token and no finish indicator
EmptyChoice(data) == data = Str(F_ChoiceBlank)

RECURSIVE ExpectedTokens(_)
\* the tokens of the token frames of a frame sequence, in arrival order
ExpectedTokens(fs) ==
    IF fs = <<>> THEN <<>>
    ELSE IF Head(fs) \in SpecTokenFrames
         THEN <<SpecToken(Head(fs))>> \o ExpectedTokens(Tail(fs))
         ELSE ExpectedTokens(Tail(fs))

RECURSIVE ConcatAll(_)
ConcatAll(strs) ==
    IF strs = <<>> THEN "" ELSE Head(strs) \o ConcatAll(Tail(strs))

Args(calls) == [i \in 1..Len(calls) |-> calls[i].arg]

AllClassified(fs) ==
    \A i \in 1..Len(fs) :
        fs[i] \in SpecTokenFrames \cup SpecTerminateFrames \/ EmptyChoice(fs[i])

Fulfilled(val) == [state |-> "fulfilled", value |-> val]

Rejected(err) == [state |-> "rejected", value |-> err]

\* this step handles one message event of session t
MsgStep(t) == Len(session'[t].frames) = Len(session[t].frames) + 1

\* the evt.data of that message event
MsgData(t) == session'[t].frames[Len(session'[t].frames)]

\* this step appended tok to the buffer and called onToken once, with tok
Emitted(t, tok) ==
    /\ session'[t].fullText = session[t].fullText \o tok
    /\ Len(session'[t].onTokenCalls) = Len(session[t].onTokenCalls) + 1
    /\ SubSeq(session'[t].onTokenCalls, 1, Len(session[t].onTokenCalls))
          = session[t].onTokenCalls
    /\ session'[t].onTokenCalls[Len(session'[t].onTokenCalls)].arg = tok

\* this step neither changed the buffer nor called onToken
NoEmit(t) ==
    /\ session'[t].fullText = session[t].fullText
    /\ session'[t].onTokenCalls = session[t].onTokenCalls

\* this step is a close event that no error event came with
CleanCloseStep(t) ==
    /\ session[t].ws # "CLOSED"
    /\ session'[t].ws = "CLOSED"
    /\ ~session'[t].wsErrored

(***************************************************************************)
(* C1: for one call of streamGeminiResponseViaProxy, under every           *)
(* interleaving of token, terminate, close, error and deadline events,     *)
(* resolve/reject is called exactly once: never twice, and once as soon as *)
(* the session is resolved, the deadline has fired or the channel has      *)
(* closed; after that no event changes the promise's outcome or value.     *)
(***************************************************************************)
C1_SettledExactlyOnce ==
    /\ [](\A t \in Turns :
            LET s == session[t]
            IN  /\ s.settleCalls <= 1
                /\ (s.promise.state # "pending") <=> (s.settleCalls = 1)
                /\ s.resolved => s.settleCalls = 1
                /\ (s.timer = "fired" \/ s.ws = "CLOSED") => s.settleCalls = 1)
    /\ [][\A t \in Turns :
            session[t].promise.state # "pending"
                => /\ session'[t].promise = session[t].promise
                   /\ session'[t].settleCalls = session[t].settleCalls]_vars

\* a session that saw a token, the deadline, and then an error and a close
C1_Witness ==
    \E t \in Turns :
        /\ session[t].timer = "fired"
        /\ session[t].ws = "CLOSED"
        /\ session[t].wsErrored
        /\ session[t].onTokenCalls # <<>>
        /\ session[t].promise = Rejected("Streaming timeout")

(***************************************************************************)
(* C2: when a turn of handleSendMessage has ended, the chat view holds     *)
(* exactly one assistant message of that turn: the streamed bubble after a *)
(* stream success; after a stream failure no streaming bubble and one      *)
(* message, the blocking reply, or the apology when the blocking call      *)
(* failed. No turn ever shows two, and no typing indicator is left when no *)
(* turn is in progress.                                                    *)
(***************************************************************************)
AssistantMsgs(t) ==
    { i \in 1..Len(chatMessages) :
        chatMessages[i].turn = t /\ chatMessages[i].cls \in {"bot", "streaming"} }

HttpCallOf(t) ==
    httpCalls[CHOOSE i \in 1..Len(httpCalls) : httpCalls[i].turn = t]

C2_OneAssistantMessage ==
    /\ \A t \in Turns :
         /\ Cardinality(AssistantMsgs(t)) <= 1
         /\ pc[t] = "done" =>
              \E i \in 1..Len(chatMessages) :
                 /\ AssistantMsgs(t) = {i}
                 /\ IF session[t].promise.state = "fulfilled"
                    THEN chatMessages[i].cls = "streaming"
                    ELSE /\ session[t].promise.state = "rejected"
                         /\ chatMessages[i].cls = "bot"
                         /\ IF HttpCallOf(t).result = "ok"
                            THEN chatMessages[i].text \in Replies
                            ELSE chatMessages[i].text = Apology
    /\ (\A t \in Turns : pc[t] \in {"idle", "done"})
          => \A i \in 1..Len(chatMessages) : chatMessages[i].cls # "typing"

\* a turn whose stream failed after a token and whose blocking call failed too
C2_Witness ==
    \E t \in Turns :
        /\ pc[t] = "done"
        /\ session[t].promise.state = "rejected"
        /\ session[t].onTokenCalls # <<>>
        /\ HttpCallOf(t).result = "failed"
        /\ \E i \in AssistantMsgs(t) : chatMessages[i].text = Apology

(***************************************************************************)
(* C3: for every turn whose stream session failed (constructor throw,      *)
(* channel error, deadline), exactly one assistant entry ({isUser: false}) *)
(* has been appended to chatHistory when the turn has ended, also when the *)
(* blocking fallback call failed.                                          *)
(***************************************************************************)
AssistantEntries(t) ==
    { i \in 1..Len(chatHistory) : chatHistory[i].turn = t /\ ~chatHistory[i].isUser }

C3_OneTranscriptEntry ==
    \A t \in Turns :
        (pc[t] = "done" /\ session[t].promise.state = "rejected")
            => Cardinality(AssistantEntries(t)) = 1

(***************************************************************************)
(* C4: the deadline timer can only fire on a session nothing has settled;  *)
(* when it fires the session closes the channel and the promise is         *)
(* rejected with the timeout error, whatever text has accumulated, and a   *)
(* session whose timer has fired is never settled as success.              *)
(***************************************************************************)
C4_DeadlineRejects ==
    /\ [](\A t \in Turns :
            /\ session[t].timer = "pending"
                  => ~session[t].resolved /\ session[t].promise.state = "pending"
            /\ session[t].timer = "fired"
                  => /\ session[t].promise = Rejected("Streaming timeout")
                     /\ session[t].ws \in {"CLOSING", "CLOSED"})
    /\ [][\A t \in Turns :
            (session[t].timer = "pending" /\ session'[t].timer = "fired")
                => /\ session'[t].promise = Rejected("Streaming timeout")
                   /\ session'[t].resolved
                   /\ session'[t].ws = "CLOSING"
                   /\ session'[t].fullText = session[t].fullText]_vars

\* the deadline fired on a session that had accumulated text
C4_Witness ==
    \E t \in Turns :
        /\ session[t].timer = "fired"
        /\ session[t].fullText # ""
        /\ session[t].promise.state = "rejected"

(***************************************************************************)
(* C5: a terminate frame settles the session as success with the buffer    *)
(* accumulated so far; a close event on a session nothing has settled yet  *)
(* (no terminate before it) settles it as success with the buffer, which   *)
(* is the empty string when no token came before the close.                *)
(***************************************************************************)
C5_TerminateOrCloseSucceeds ==
    [][\A t \in Turns :
          /\ (MsgStep(t) /\ MsgData(t) \in SpecTerminateFrames)
                => /\ session'[t].promise = Fulfilled(session[t].fullText)
                   /\ NoEmit(t)
          /\ (CleanCloseStep(t) /\ ~session[t].resolved)
                => /\ session'[t].promise = Fulfilled(session[t].fullText)
                   /\ session[t].onTokenCalls = <<>>
                         => session'[t].promise = Fulfilled("")]_vars

\* a channel that opened and closed before any frame: success with ""
C5_Witness ==
    \E t \in Turns :
        /\ session[t].ws = "CLOSED"
        /\ ~session[t].wsErrored
        /\ session[t].sent # <<>>
        /\ session[t].frames = <<>>
        /\ session[t].timer = "cleared"
        /\ session[t].promise = Fulfilled("")

(***************************************************************************)
(* C6: the text a session resolves with is the concatenation, in arrival   *)
(* order, of the tokens passed to onToken, and for frames of the shapes    *)
(* the specification classifies, of the tokens of the token frames         *)
(* received; token frames "Hel" and "lo" followed by a close resolve with  *)
(* "Hello".                                                                *)
(***************************************************************************)
C6_TextIsConcatenation ==
    \A t \in Turns :
        LET s == session[t]
        IN  /\ s.promise.state = "fulfilled"
                 => /\ s.promise.value = ConcatAll(Args(s.onTokenCalls))
                    /\ AllClassified(s.frames)
                          => s.promise.value = ConcatAll(ExpectedTokens(s.frames))
            /\ ( /\ s.frames = <<Str(F_TokHel), Str(F_TokLo)>>
                 /\ s.ws = "CLOSED"
                 /\ ~s.wsErrored
                 /\ s.timer # "fired" )
                 => s.promise = Fulfilled("Hello")

\* the scenario: "Hel", "lo", then a close with no terminate frame
C6_Witness ==
    \E t \in Turns :
        /\ session[t].frames = <<Str(F_TokHel), Str(F_TokLo)>>
        /\ session[t].ws = "CLOSED"
        /\ ~session[t].wsErrored
        /\ session[t].promise = Fulfilled("Hello")

(***************************************************************************)
(* C7: for every token frame, onToken is invoked exactly once, in the step *)
(* that handles that frame, with only that frame's increment and never the *)
(* accumulated buffer; a choices frame whose content is empty carries no   *)
(* token and invokes nothing; no frame invokes onToken twice; the sequence *)
(* of onToken arguments is the sequence of received tokens in arrival      *)
(* order.                                                                  *)
(***************************************************************************)
C7_OnTokenPerFrame ==
    /\ [][\A t \in Turns :
            MsgStep(t) =>
               /\ MsgData(t) \in SpecTokenFrames
                     => Emitted(t, SpecToken(MsgData(t)))
               /\ EmptyChoice(MsgData(t)) => NoEmit(t)
               /\ Len(session'[t].onTokenCalls) <= Len(session[t].onTokenCalls) + 1
       ]_vars
    /\ [](\A t \in Turns :
            AllClassified(session[t].frames)
               => Args(session[t].onTokenCalls) = ExpectedTokens(session[t].frames))

\* a second token was passed to onToken alone, after a first one
C7_Witness ==
    \E t \in Turns :
        /\ session[t].frames = <<Str(F_TokHel), Str(F_TokLo)>>
        /\ session[t].fullText = "Hello"
        /\ Args(session[t].onTokenCalls) = <<"Hel", "lo">>

C9_SentinelOrEmptyTerminates ==
    [][\A t \in Turns :
          ( /\ MsgStep(t)
            /\ MsgData(t).t = "string"
            /\ JSONParseThrows(ToStr(MsgData(t)))
            /\ ToStr(MsgData(t)) \in {"[DONE]", ""} )
             => /\ session'[t].promise = Fulfilled(session[t].fullText)
                /\ NoEmit(t)]_vars

(***************************************************************************)
(* C10: a message that decodes and matches none of the recognized shapes   *)
(* is ignored: the buffer is unchanged, onToken is not invoked and the     *)
(* session is not settled by it.                                           *)
(***************************************************************************)
C10_UnrecognizedIgnored ==
    [][\A t \in Turns :
          (MsgStep(t) /\ MsgData(t) \in SpecIgnoredFrames)
             => /\ NoEmit(t)
                /\ session'[t].promise = session[t].promise
                /\ session'[t].resolved = session[t].resolved]_vars

(***************************************************************************)
(* C11: handling one inbound message never raises: whatever the payload,   *)
(* a decoded object whose choices list is empty or whose first choice is   *)
(* not an object included, no exception leaves ws.onmessage.               *)
(***************************************************************************)
C11_MessageNeverRaises ==
    \A t \in Turns : session[t].uncaught = 0

\* the last entry of the onToken call log after this step
LastCall(t) == session'[t].onTokenCalls[Len(session'[t].onTokenCalls)]

\* the frames that carry both a content token and a finish indicator
ChoiceFinFrames == { Str(F_ChoiceFin) }

(***************************************************************************)
(* C12: a choices frame that carries both a content token and a finish    *)
(* indicator is handled in order: the token is appended to the buffer and  *)
(* passed to onToken while the session is still unsettled, and then the    *)
(* session is settled as success with the buffer that includes that token. *)
(***************************************************************************)
C12_TokenThenFinish ==
    [][\A t \in Turns :
          (MsgStep(t) /\ MsgData(t) \in ChoiceFinFrames)
             => /\ Emitted(t, SpecToken(MsgData(t)))
                /\ ~LastCall(t).settled
                /\ session'[t].resolved
                /\ session'[t].promise
                      = Fulfilled(session[t].fullText \o SpecToken(MsgData(t)))
                /\ session'[t].settleCalls = session[t].settleCalls + 1]_vars

\* a token frame, then a frame with content and finish: resolved with both
C12_Witness ==
    \E t \in Turns :
        /\ session[t].frames = <<Str(F_TokHel), Str(F_ChoiceFin)>>
        /\ Args(session[t].onTokenCalls) = <<"Hel", "!">>
        /\ session[t].promise = Fulfilled("Hel!")

\* the well-formed frames of the three recognized JSON shapes
ShapeFrames ==
    { Str(F_Choice), Str(F_ChoiceFin), Str(F_TokHel), Str(F_TokLo),
      Str(F_TokEmpty), Str(F_Text), Str(F_TextAmp) }

\* the token text of a decoded frame, by its shape (spec 4.1, rules 2 to 4)
ShapeToken(data) ==
    LET obj == JSONParse(data.v)
    IN  IF Get(obj, "choices").t = "array"
        THEN Get(Get(First(Get(obj, "choices")), "delta"), "content").v
        ELSE IF StrictEq(Get(obj, "event"), "token")
        THEN Get(obj, "token").v
        ELSE Get(obj, "text").v

(***************************************************************************)
(* C13: for every well-formed frame of a recognized shape the token that   *)
(* is emitted (appended to the buffer and passed to onToken) is exactly    *)
(* that shape's token text: the first choice's delta content for a choices *)
(* frame, the token field for a token-event frame, the text field for a    *)
(* text frame; the text is passed through unchanged.                       *)
(***************************************************************************)
C13_EmittedTokenIsShapeText ==
    [][\A t \in Turns :
          (MsgStep(t) /\ MsgData(t) \in ShapeFrames)
             => /\ session'[t].fullText
                      = session[t].fullText \o ShapeToken(MsgData(t))
                /\ Len(session'[t].onTokenCalls) = Len(session[t].onTokenCalls) + 1
                /\ LastCall(t).arg = ShapeToken(MsgData(t))]_vars

\* one frame of each shape was handled and its token text reached onToken
C13_Witness ==
    \E t \in Turns :
        /\ session[t].frames = <<Str(F_Choice), Str(F_TextAmp)>>
        /\ Args(session[t].onTokenCalls) = <<"Hi", "R&amp;D">>

\* some onToken call of session s threw
SomeCallThrew(s) == \E i \in 1..Len(s.onTokenCalls) : s.onTokenCalls[i].threw

(***************************************************************************)
(* C14: an exception thrown by onToken is caught inside the session.  In   *)
(* the step whose onToken call throws, the token stays in the buffer, no   *)
(* exception leaves the handler, and the session is not rejected; it is    *)
(* settled in that step only if the frame itself carried a finish          *)
(* indicator.  Frames that arrive after a throwing call are still          *)
(* processed, and a session with a throwing call still settles exactly     *)
(* once.                                                                   *)
(***************************************************************************)
C14_OnTokenThrowIsCaught ==
    /\ [][\A t \in Turns :
            MsgStep(t) =>
               /\ ( /\ Len(session'[t].onTokenCalls) > Len(session[t].onTokenCalls)
                    /\ LastCall(t).threw )
                     => /\ session'[t].fullText
                              = session[t].fullText \o LastCall(t).arg
                        /\ session'[t].uncaught = session[t].uncaught
                        /\ session'[t].promise.state # "rejected"
                        /\ MsgData(t) \notin ChoiceFinFrames
                              => /\ session'[t].promise = session[t].promise
                                 /\ session'[t].resolved = session[t].resolved
                                 /\ session'[t].ws = session[t].ws
               /\ (SomeCallThrew(session[t]) /\ MsgData(t) \in SpecTokenFrames)
                     => Emitted(t, SpecToken(MsgData(t)))
       ]_vars
    /\ [](\A t \in Turns :
            SomeCallThrew(session[t])
               => /\ session[t].settleCalls <= 1
                  /\ session[t].ws = "CLOSED" => session[t].settleCalls = 1)

\* onToken threw on the first token; the second was still processed and the
\* session then settled once, as success with both tokens
C14_Witness ==
    \E t \in Turns :
        /\ session[t].frames = <<Str(F_TokHel), Str(F_TokLo)>>
        /\ session[t].onTokenCalls[1].threw
        /\ Args(session[t].onTokenCalls) = <<"Hel", "lo">>
        /\ session[t].promise = Fulfilled("Hello")
        /\ session[t].settleCalls = 1

\* the streaming channel of session s is live: connecting or open, with no
\* close requested and no close or error event received
StreamLive(s) == s.ws \in {"CONNECTING", "OPEN"}

\* turn t has started its blocking callGeminiAPI call
FallbackStarted(t) == \E i \in 1..Len(httpCalls) : httpCalls[i].turn = t

(***************************************************************************)
(* C15: within one turn the blocking fallback call is started only after   *)
(* the streaming channel of that turn has been closed (close() called or   *)
(* the close event received) or was never created because the setup        *)
(* failed: a turn never has a live streaming channel and a blocking call   *)
(* at the same time, and the stream's promise is rejected by then.         *)
(***************************************************************************)
C15_FallbackAfterStreamClosed ==
    \A t \in Turns :
        FallbackStarted(t)
           => /\ ~StreamLive(session[t])
              /\ session[t].promise.state = "rejected"
              /\ session[t].timer # "pending"

\* the deadline fired on an open channel: close() was called, the channel is
\* closing and the blocking call of the turn is in flight
C15_Witness ==
    \E t \in Turns :
        /\ FallbackStarted(t)
        /\ HttpCallOf(t).result = "pending"
        /\ session[t].timer = "fired"
        /\ session[t].sent # <<>>
        /\ session[t].ws = "CLOSING"

(***************************************************************************)
(* C16: the fallback reissues the same logical request: the blocking call  *)
(* of a turn is given the same prompt, the same conversation history and   *)
(* the same system prompt that the stream start payload of that turn       *)
(* carried.                                                                *)
(***************************************************************************)
C16_FallbackSameRequest ==
    \A i \in 1..Len(httpCalls) :
        LET call == httpCalls[i]
            payload == session[call.turn].startPayload
        IN  /\ call.userPrompt = payload.prompt
            /\ startHistory(call.chatHistory) = payload.history
            /\ "systemPrompt" \in DOMAIN payload
            /\ payload.systemPrompt = call.systemPrompt

\* the start control message of session s
StartMessage(s) == [type |-> "start", payload |-> s.startPayload]

(***************************************************************************)
(* C17: a session sends exactly one start control message, of the form     *)
(* {type: "start", payload: startPayload}, at the moment the channel is    *)
(* established and not before: nothing is sent while the channel is        *)
(* absent or connecting, the open event is the only step that sends, it    *)
(* sends the one start message, and a session whose channel is never       *)
(* established sends none.                                                 *)
(***************************************************************************)
C17_OneStartMessageAtOpen ==
    /\ [](\A t \in Turns :
            /\ Len(session[t].sent) <= 1
            /\ session[t].ws \in {"NONE", "CONNECTING"} => session[t].sent = <<>>
            /\ session[t].ws = "OPEN"
                  => session[t].sent = <<StartMessage(session[t])>>)
    /\ [][\A t \in Turns :
            /\ session'[t].sent # session[t].sent
                  => /\ session[t].ws = "CONNECTING"
                     /\ session'[t].ws = "OPEN"
            /\ (session[t].ws = "CONNECTING" /\ session'[t].ws = "OPEN")
                  => /\ session[t].sent = <<>>
                     /\ session'[t].sent = <<StartMessage(session[t])>>
       ]_vars

\* the channel opened, the start message of the turn went out, and the
\* session has since ended with still that one message sent
C17_Witness ==
    \E t \in Turns :
        /\ session[t].ws = "CLOSED"
        /\ session[t].frames # <<>>
        /\ session[t].sent = <<StartMessage(session[t])>>
        /\ session[t].startPayload.prompt = buildChatContextMessage("hi")

\* session s has been opened and its promise is not yet settled
Unsettled(s) == s.created /\ s.promise.state = "pending"

(***************************************************************************)
(* C18: every opened session eventually reaches a terminal state, given    *)
(* that the deadline timer eventually fires when it is not cancelled: no   *)
(* reachable session is unsettled with its deadline timer no longer        *)
(* pending, and every opened session's promise is eventually settled.      *)
(***************************************************************************)
C18_SessionEventuallySettles ==
    /\ [](\A t \in Turns :
            Unsettled(session[t]) => session[t].timer = "pending")
    /\ \A t \in Turns :
            session[t].created ~> session[t].promise.state # "pending"

\* a session that received frames without a terminate and was settled by
\* its deadline
C18_Witness ==
    \E t \in Turns :
        /\ session[t].frames = <<Str(F_TokHel), Str(F_Unknown)>>
        /\ session[t].timer = "fired"
        /\ session[t].promise.state = "rejected"

\* the entries of list lst hold exactly the input values of the rows of the
\* rendered list rows, in display order
SameAsRows(lst, rows, sec) ==
    /\ Len(lst) = Len(rows)
    /\ \A i \in 1..Len(rows) :
          /\ DOMAIN lst[i] = SecFields(sec)
          /\ \A f \in SecFields(sec) : lst[i][f] = rows[i][f]

\* record cv holds, in each of its four sections, what view displays
CapturedFrom(cv, view) ==
    /\ cv.name = view.name
    /\ \A sec \in SectionSet : SameAsRows(cv[sec], view.lists[sec], sec)

\* view displays record cv: its name and one row per entry of each section
Displays(view, cv) ==
    /\ view.rendered
    /\ view.name = cv.name
    /\ \A sec \in SectionSet : Len(view.lists[sec]) = Len(cv[sec])

\* this step is a tab click that changes the active record index
TabSwitchStep ==
    /\ modalOpen /\ modalOpen'
    /\ activeCvIndex' # activeCvIndex

(***************************************************************************)
(* C19: on a tab switch the active record is captured from the rendered    *)
(* view into modalCvData before activeCvIndex changes: after the step the  *)
(* record that was active holds exactly the rows the view displayed (a     *)
(* deleted row is absent), every other record is unchanged, and the view   *)
(* displays the newly active record with one row per entry.  Hence, after  *)
(* deleting the first of the 2 experience rows of "resume.pdf", switching  *)
(* to the other tab and back, "resume.pdf" has exactly 1 experience entry. *)
(***************************************************************************)
C19_CaptureBeforeTabSwitch ==
    [][TabSwitchStep =>
          LET k == activeCvIndex + 1
          IN  /\ Len(modalCvData') = Len(modalCvData)
              /\ CapturedFrom(modalCvData'[k], dom)
              /\ \A j \in 1..Len(modalCvData) :
                    j # k => modalCvData'[j] = modalCvData[j]
              /\ Displays(dom', modalCvData'[activeCvIndex' + 1])]_vars

\* the first experience row of "resume.pdf" was deleted and the other tab is
\* on display: the record keeps the one remaining entry
C19_Witness ==
    /\ modalOpen
    /\ submits = 0
    /\ activeCvIndex = 1
    /\ dom.name = "other.pdf"
    /\ modalCvData[1].name = "resume.pdf"
    /\ Len(modalCvData[1].experience) = 1
    /\ modalCvData[1].experience[1].jobTitle = "QA"

\* this step is a submit
SubmitStep == submits' = submits + 1

\* the record of the submitted set that has the name of cv
SubmittedAs(set, cv) ==
    { i \in 1..Len(set) : set[i].name = cv.name }

(***************************************************************************)
(* C20: on submit the active record is captured from the rendered view     *)
(* before the modal records are upserted into the submitted set: after the *)
(* step the submitted set holds, for every record of the modal, exactly    *)
(* one record of that name; for the active record it holds the rows the    *)
(* view displayed at the click (edits since the last tab switch included)  *)
(* and for every other record the record as the modal held it.             *)
(***************************************************************************)
C20_CaptureBeforeSubmit ==
    [][SubmitStep =>
          \A j \in 1..Len(modalCvData) :
             LET at == SubmittedAs(submittedCvData', modalCvData[j])
             IN  /\ Cardinality(at) = 1
                 /\ \A i \in at :
                       IF j = activeCvIndex + 1
                       THEN CapturedFrom(submittedCvData'[i], dom)
                       ELSE submittedCvData'[i] = modalCvData[j]]_vars

\* "resume.pdf" was submitted with its first experience row deleted and
\* "Lead" typed as the job title of the remaining row, while on display
C20_Witness ==
    /\ submits = 1
    /\ ~modalOpen
    /\ activeCvIndex = 0
    /\ Len(submittedCvData) = 2
    /\ submittedCvData[1].name = "resume.pdf"
    /\ Len(submittedCvData[1].experience) = 1
    /\ submittedCvData[1].experience[1].jobTitle = "Lead"
    /\ submittedCvData[1].experience[1].company = "Beta"

\* the sequence seq without its i-th element
RemoveAt(seq, i) ==
    [k \in 1..(Len(seq) - 1) |-> IF k < i THEN seq[k] ELSE seq[k + 1]]

(***************************************************************************)
(* C21: readCvFromDom of a rendered record with one row deleted returns a  *)
(* record whose list for that section is the captured list with exactly    *)
(* that row removed: its length is one less, the remaining entries keep    *)
(* their display order and the values of their inputs, no tombstone is     *)
(* left, and the other sections and the name are as without the delete.    *)
(* Stated for the record on display in every state of the open modal and   *)
(* for every row that the user can delete there.                           *)
(***************************************************************************)
C21_CaptureAfterRowDelete ==
    (modalOpen /\ dom.rendered) =>
        LET cv == JsAt(modalCvData, activeCvIndex)
            before == readCvFromDom(cv, dom)
        IN  \A sec \in SectionSet :
               \A i \in 1..Len(dom.lists[sec]) :
                  LET after == readCvFromDom(cv, removeRow(UI, sec, i).view)
                  IN  /\ Len(after[sec]) = Len(dom.lists[sec]) - 1
                      /\ after[sec] = RemoveAt(before[sec], i)
                      /\ \A k \in 1..Len(after[sec]) :
                            \A f \in SecFields(sec) :
                               after[sec][k][f]
                                  = dom.lists[sec][IF k < i THEN k ELSE k + 1][f]
                      /\ \A other \in DOMAIN before \ {sec} :
                            after[other] = before[other]
                      /\ dom = renderCvDetails(cv)
                            => Len(after[sec]) = Len(cv[sec]) - 1

\* the first experience row of "resume.pdf" was deleted and the record was
\* captured while on display: it holds the second entry alone
C21_Witness ==
    /\ modalOpen
    /\ submits = 0
    /\ activeCvIndex = 0
    /\ modalCvData[1].name = "resume.pdf"
    /\ modalCvData[1].experience
          = << [jobTitle |-> "QA", company |-> "Beta", description |-> "",
                years |-> "2019"] >>
    /\ Len(dom.lists["experience"]) = 1

\* the names of the records of a list
NamesOf(list) == { list[i].name : i \in 1..Len(list) }

\* the last record of the list that has the name
LastNamed(list, name) ==
    LET last == CHOOSE i \in 1..Len(list) :
                    /\ list[i].name = name
                    /\ \A j \in (i + 1)..Len(list) : list[j].name # name
    IN  list[last]

(***************************************************************************)
(* C22: upsertByName(existing, incoming) replaces wholesale: for every     *)
(* name present in both arguments the result has exactly one record of     *)
(* that name, and it is the incoming record, with no field taken from the  *)
(* existing one (existing A, incoming A with skills [{title: "X"}] gives   *)
(* one A with skills [{title: "X"}] and nothing else).                     *)
(***************************************************************************)
C22_UpsertReplacesWholesale ==
    (storeCall.called /\ storeCall.mutated = 0) =>
        \A name \in NamesOf(storeCall.existing) \cap NamesOf(storeCall.incoming) :
           LET at == { i \in 1..Len(storeCall.result) :
                          storeCall.result[i].name = name }
           IN  /\ Cardinality(at) = 1
               /\ \A i \in at :
                     /\ storeCall.result[i] = LastNamed(storeCall.incoming, name)
                     /\ DOMAIN storeCall.result[i]
                           = DOMAIN LastNamed(storeCall.incoming, name)

\* existing A with an experience entry, incoming A with skills [{title: "X"}]:
\* the result is the one incoming record, without the experience field
C22_Witness ==
    /\ storeCall.called
    /\ Len(storeCall.existing) = 1 /\ storeCall.existing[1].oid = 1
    /\ Len(storeCall.incoming) = 1 /\ storeCall.incoming[1].oid = 2
    /\ Len(storeCall.result) = 1
    /\ storeCall.result[1].name = "A"
    /\ storeCall.result[1].skills = << [title |-> "X"] >>
    /\ "experience" \notin DOMAIN storeCall.result[1]

\* the names of a list of records in the order of their first occurrence
RECURSIVE FirstSeen(_, _)
FirstSeen(list, seen) ==
    IF list = <<>> THEN <<>>
    ELSE IF Head(list).name \in seen THEN FirstSeen(Tail(list), seen)
    ELSE <<Head(list).name>> \o FirstSeen(Tail(list), seen \cup {Head(list).name})

(***************************************************************************)
(* C23: upsertByName keeps the records present only in existing, orders    *)
(* the result by the first occurrence of each name across existing then    *)
(* incoming, and collapses duplicate names to their last value ([A],[B]    *)
(* gives [A,B]; [A,B],[A'] gives [A',B]); the call leaves both argument    *)
(* lists as they were.                                                     *)
(***************************************************************************)
C23_UpsertOrderAndRetention ==
    /\ []((storeCall.called /\ storeCall.mutated = 0) =>
            LET all == storeCall.existing \o storeCall.incoming
                result == storeCall.result
            IN  /\ [i \in 1..Len(result) |-> result[i].name] = FirstSeen(all, {})
                /\ \A i \in 1..Len(result) :
                      result[i] = LastNamed(all, result[i].name)
                /\ \A name \in NamesOf(storeCall.existing)
                                  \ NamesOf(storeCall.incoming) :
                      \E i \in 1..Len(result) :
                         result[i] = LastNamed(storeCall.existing, name))
    /\ [][(~storeCall.called /\ storeCall'.called)
             => /\ storeCall'.existing = storeCall.existing
                /\ storeCall'.incoming = storeCall.incoming]_vars

\* [A, B] and [A'] gave [A', B]
C23_Witness ==
    /\ storeCall.called
    /\ storeCall.mutated = 0
    /\ [i \in 1..Len(storeCall.existing) |-> storeCall.existing[i].oid] = <<1, 3>>
    /\ [i \in 1..Len(storeCall.incoming) |-> storeCall.incoming[i].oid] = <<2>>
    /\ [i \in 1..Len(storeCall.result) |-> storeCall.result[i].oid] = <<2, 3>>

\* the record objects of the argument lists of the call
InputOids ==
    { storeCall.existing[i].oid : i \in 1..Len(storeCall.existing) }
       \cup { storeCall.incoming[i].oid : i \in 1..Len(storeCall.incoming) }

(***************************************************************************)
(* C24: upsertByName deep-clones both arguments first: no record of its    *)
(* result is the same mutable object as a record of existing or incoming,  *)
(* so a later mutation of an argument record does not change the result.   *)
(***************************************************************************)
C24_UpsertSharesNothing ==
    /\ [](storeCall.called =>
            \A i \in 1..Len(storeCall.result) :
               storeCall.result[i].oid \notin InputOids)
    /\ [][storeCall.called => storeCall'.result = storeCall.result]_vars

\* the names of the first n selected files, in selection order
FirstFiles(files, n) == [i \in 1..n |-> files[i]]

(***************************************************************************)
(* C27: when extraction or structuring fails on file k of a batch, the     *)
(* files k+1.. are not processed and the records of the files 1..k-1       *)
(* already structured stay in uploadedCvs, in selection order: the failing *)
(* step leaves uploadedCvs as it is and ends the loop without opening the  *)
(* modal, uploadedCvs always holds the records of a prefix of the batch,   *)
(* and no record is added while the handler is not in its file loop.       *)
(***************************************************************************)
C27_FailureKeepsAnalyzedPrefix ==
    /\ [](/\ Len(uploadedCvs) <= Len(gen.files)
          /\ [i \in 1..Len(uploadedCvs) |-> uploadedCvs[i].name]
                = FirstFiles(gen.files, Len(uploadedCvs))
          /\ \A i \in 1..Len(uploadedCvs) :
                uploadedCvs[i].structured = StructuredSections(uploadedCvs[i].name)
          /\ gen.failedAt # 0 => Len(uploadedCvs) = gen.failedAt - 1)
    /\ [][/\ gen'.failedAt # gen.failedAt /\ gen'.failedAt # 0
                => /\ uploadedCvs' = uploadedCvs
                   /\ gen'.pc = "idle"
                   /\ modalOpen' = modalOpen
          /\ gen.pc # "extracting" => uploadedCvs' = uploadedCvs
       ]_vars

\* the second file of the batch failed: the record of the first is kept and
\* the loop has ended
C27_Witness ==
    /\ gen.failedAt = 2
    /\ gen.pc = "idle"
    /\ Len(uploadedCvs) = 1
    /\ uploadedCvs[1].name = "resume.pdf"
    /\ ~modalOpen

\* this step is a delete of one submitted-CV bubble
BubbleDeleteStep ==
    /\ ~modalOpen /\ ~modalOpen'
    /\ \E i \in 1..Len(submittedCvData) :
          submittedCvData' = RemoveAt(submittedCvData, i)

C26_OneSubmittedRecordPerName ==
    \A i, j \in 1..Len(submittedCvData) :
        submittedCvData[i].name = submittedCvData[j].name => i = j

\* both records were submitted, opened again from a bubble and submitted a
\* second time: the set still holds one record of each name
C26_Witness ==
    /\ submits = 2
    /\ Len(submittedCvData) = 2
    /\ submittedCvData[1].name = "resume.pdf"
    /\ submittedCvData[2].name = "other.pdf"

\* the promise of session s is settled
Settled(s) == s.promise.state # "pending"

(***************************************************************************)
(* C28: once a session has settled, as success or as failure, no later     *)
(* inbound frame appends to the buffer or invokes onToken: every settled   *)
(* session has had close() called on its channel or has seen it closed,    *)
(* so a frame that arrives late is dropped without a message event, and    *)
(* no step changes the buffer or the onToken call log of a settled         *)
(* session; in particular not after a deadline or error failure.           *)
(***************************************************************************)
C28_NoOutputAfterSettle ==
    /\ [](\A t \in Turns :
            Settled(session[t]) => session[t].ws \notin {"CONNECTING", "OPEN"})
    /\ [][\A t \in Turns :
            Settled(session[t])
               => /\ session'[t].fullText = session[t].fullText
                  /\ session'[t].onTokenCalls = session[t].onTokenCalls
                  /\ session'[t].frames = session[t].frames
                  /\ session'[t].promise = session[t].promise]_vars

\* the deadline rejected a session that had received one token; a frame that
\* arrived afterwards was dropped and the buffer is as it was
C28_Witness ==
    \E t \in Turns :
        /\ session[t].timer = "fired"
        /\ session[t].promise.state = "rejected"
        /\ session[t].frames = <<Str(F_TokHel)>>
        /\ session[t].late = 1
        /\ session[t].fullText = "Hel"
        /\ Len(session[t].onTokenCalls) = 1

\* the recognized shapes a decoded object matches, each tested on its own:
\* 1 a choices list, 2 a "token" event with a string token, 3 a string text
\* field, 4 an "end" event
ShapesMatched(obj) ==
    { r \in 1..4 :
        CASE r = 1 -> Get(obj, "choices").t = "array"
          [] r = 2 -> StrictEq(Get(obj, "event"), "token")
                         /\ Get(obj, "token").t = "string"
          [] r = 3 -> Get(obj, "text").t = "string"
          [] r = 4 -> StrictEq(Get(obj, "event"), "end") }

\* the frames that decode to an object matching at least two shapes
MultiShapeFrames ==
    { Str(f) : f \in { g \in TextFrames :
                         /\ ~JSONParseThrows(g)
                         /\ Cardinality(ShapesMatched(JSONParse(g))) >= 2 } }

\* the first shape, in the order of the rules, that a decoded object matches
FirstShape(obj) ==
    CHOOSE r \in ShapesMatched(obj) : \A q \in ShapesMatched(obj) : r <= q

\* this step did not settle session t
NoSettle(t) ==
    /\ session'[t].promise = session[t].promise
    /\ session'[t].resolved = session[t].resolved
    /\ session'[t].ws = session[t].ws

(***************************************************************************)
(* C29: a message that matches several recognized shapes is handled by the *)
(* first matching rule only, in the order choices list, "token" event,     *)
(* string text field, "end" event.  A choices list wins over token, text   *)
(* and end fields (only the first choice's delta is emitted, and an "end"  *)
(* event beside it does not terminate); a token event wins over a text     *)
(* field; a string text field wins over an "end" event, whose frame emits  *)
(* the text as one token and leaves the session unsettled.  No message     *)
(* makes more than one onToken call.                                       *)
(***************************************************************************)
C29_FirstMatchingRuleOnly ==
    [][\A t \in Turns :
          MsgStep(t) =>
             /\ Len(session'[t].onTokenCalls) <= Len(session[t].onTokenCalls) + 1
             /\ MsgData(t) \in MultiShapeFrames =>
                  LET obj == JSONParse(MsgData(t).v)
                      content == Get(Get(First(Get(obj, "choices")), "delta"),
                                     "content")
                  IN  /\ NoSettle(t)
                      /\ FirstShape(obj) = 1 =>
                            IF Truthy(content) THEN Emitted(t, content.v)
                            ELSE NoEmit(t)
                      /\ FirstShape(obj) = 2 => Emitted(t, Get(obj, "token").v)
                      /\ FirstShape(obj) = 3 => Emitted(t, Get(obj, "text").v)]_vars

\* a frame with a text field and an "end" event was emitted as a token and
\* the frame after it was still handled, a token-event frame with a text field
C29_Witness ==
    \E t \in Turns :
        /\ session[t].frames = <<Str(F_TextEnd), Str(F_TokenText)>>
        /\ MultiShapeFrames = { Str(F_TextEnd), Str(F_TokenText),
                                Str(F_ChoiceTokenText), Str(F_ChoiceEnd) }
        /\ session[t].fullText = "byeK"
        /\ Args(session[t].onTokenCalls) = <<"bye", "K">>
        /\ session[t].promise.state = "pending"

\* the blocking callGeminiAPI calls of turn t
HttpCallsOf(t) == { i \in 1..Len(httpCalls) : httpCalls[i].turn = t }

(***************************************************************************)
(* C30: in one user turn the blocking completion call is issued at most    *)
(* once, and only if the stream session of that turn settled as failed; a  *)
(* turn whose stream session settled as success issues no blocking call,   *)
(* and when it has ended its single assistant transcript entry is the      *)
(* streamed text, the text the session resolved with.                      *)
(***************************************************************************)
C30_OneFallbackOnlyOnFailure ==
    \A t \in Turns :
        /\ Cardinality(HttpCallsOf(t)) <= 1
        /\ HttpCallsOf(t) # {} => session[t].promise.state = "rejected"
        /\ (pc[t] = "done" /\ session[t].promise.state = "fulfilled")
              => /\ HttpCallsOf(t) = {}
                 /\ \E i \in 1..Len(chatHistory) :
                       /\ AssistantEntries(t) = {i}
                       /\ chatHistory[i].text = session[t].promise.value

\* this step captured the rendered view into the modal records: the modal
\* was open and modalCvData changed (openCvModal runs on a closed modal)
CaptureStep == modalOpen /\ modalCvData' # modalCvData

(***************************************************************************)
(* C31: capture of the active record replaces only that record's four      *)
(* section lists with lists rebuilt from the rows present.  In every step  *)
(* that changes modalCvData of the open modal (a tab click or a submit)    *)
(* the number of records is kept, every record other than the active one   *)
(* is unchanged, the active record keeps its name and every field that is  *)
(* not a section list, and each of its four lists has one entry per row    *)
(* of the view, holding exactly the fields of that row's inputs with their *)
(* values: no field of the prior entry (such as duration) is merged in.    *)
(***************************************************************************)
C31_CaptureReplacesSectionsOnly ==
    [][CaptureStep =>
          LET k == activeCvIndex + 1
              prior == modalCvData[k]
              updated == modalCvData'[k]
          IN  /\ k \in 1..Len(modalCvData)
              /\ Len(modalCvData') = Len(modalCvData)
              /\ \A j \in 1..Len(modalCvData) :
                    j # k => modalCvData'[j] = modalCvData[j]
              /\ updated.name = prior.name
              /\ DOMAIN updated = DOMAIN prior \cup SectionSet
              /\ \A f \in DOMAIN prior \ SectionSet : updated[f] = prior[f]
              /\ \A sec \in SectionSet :
                    /\ Len(updated[sec]) = Len(dom.lists[sec])
                    /\ \A i \in 1..Len(dom.lists[sec]) :
                          updated[sec][i] = dom.lists[sec][i]]_vars

\* "resume.pdf", straight from the analysis, was captured by a click on its
\* own tab: its entries lost the duration field of the prior entries and now
\* hold the four inputs of their rows, and totalYearsExperience is kept
C31_Witness ==
    /\ modalOpen
    /\ submits = 0
    /\ edits = 0
    /\ activeCvIndex = 0
    /\ Len(modalCvData) = 2
    /\ modalCvData[1].name = "resume.pdf"
    /\ modalCvData[1].totalYearsExperience = 2
    /\ Len(modalCvData[1].experience) = 2
    /\ DOMAIN modalCvData[1].experience[1] = SecFields("experience")
    /\ modalCvData[1].experience[1].description = Bullet \o "Led team"
    /\ modalCvData[2] = cvResultsForModal(uploadedCvs)[2]

(***************************************************************************)
(* C32: the delete action on a submitted-CV bubble removes exactly the     *)
(* record that the bubble displays and leaves the other submitted records  *)
(* unchanged and in the same relative order, also after earlier deletes or *)
(* submits have shifted positions.  In every state there is one bubble per *)
(* submitted record, in order, showing that record's name, and for every   *)
(* bubble its delete handler yields the submitted set without the record   *)
(* at the bubble's place: no record of the displayed name is left and the  *)
(* records before and after it follow in their order.                      *)
(***************************************************************************)
C32_DeleteRemovesDisplayedRecord ==
    /\ Len(bubbles) = Len(submittedCvData)
    /\ \A b \in 1..Len(bubbles) :
          LET after == deleteBubble(UI, bubbles[b].idx).submitted
          IN  /\ bubbles[b].name = submittedCvData[b].name
              /\ after = RemoveAt(submittedCvData, b)
              /\ Len(after) = Len(submittedCvData) - 1
              /\ \A k \in 1..Len(after) : after[k].name # bubbles[b].name

\* both records were submitted and the bubble of "resume.pdf" was deleted:
\* the record of "other.pdf" is left, its bubble now bound to position 0
C32_Witness ==
    /\ ~modalOpen
    /\ submits = 1
    /\ Len(submittedCvData) = 1
    /\ submittedCvData[1].name = "other.pdf"
    /\ bubbles = << [name |-> "other.pdf", idx |-> 0] >>

\* this step ends the file loop of the Generate handler
FileLoopEnds == gen.pc = "extracting" /\ gen'.pc = "idle"

(***************************************************************************)
(* C33: a Generate click opens the review modal only when every selected   *)
(* file was extracted and structured successfully, with one modal record   *)
(* per selected file in selection order; after a batch that failed         *)
(* part-way no modal is opened for the files already structured.  The step *)
(* that ends the file loop opens the modal exactly when no file failed,    *)
(* and then on one record per file of the selection, in its order, each    *)
(* from the record analyzed for that file; when a file failed the modal,   *)
(* its records and the view stay as they were.  A later Generate click     *)
(* that finds records analyzed starts the recommendation generation and    *)
(* opens no modal, and the modal is opened by no other step than the end   *)
(* of a file loop without failure and a click on a submitted-CV bubble.    *)
(***************************************************************************)
C33_ModalOnlyAfterFullBatch ==
    [][/\ FileLoopEnds =>
            IF gen'.failedAt = 0
            THEN /\ modalOpen'
                 /\ activeCvIndex' = 0
                 /\ Len(uploadedCvs') = Len(gen.files)
                 /\ Len(modalCvData') = Len(gen.files)
                 /\ \A i \in 1..Len(gen.files) :
                       /\ uploadedCvs'[i].name = gen.files[i]
                       /\ modalCvData'[i] = cvResultsForModal(uploadedCvs')[i]
                       /\ modalCvData'[i].name = gen.files[i]
            ELSE /\ gen'.failedAt \in 1..Len(gen.files)
                 /\ modalOpen' = modalOpen
                 /\ modalCvData' = modalCvData
                 /\ dom' = dom
       /\ (gen.pc = "idle" /\ gen'.pc # "idle" /\ uploadedCvs # <<>>) =>
             /\ gen'.pc = "recommending"
             /\ modalOpen' = modalOpen
             /\ modalCvData' = modalCvData
             /\ uploadedCvs' = uploadedCvs
       /\ (~modalOpen /\ modalOpen') =>
             \/ FileLoopEnds /\ gen'.failedAt = 0
             \/ /\ gen' = gen
                /\ \E b \in 1..Len(bubbles) :
                      /\ modalCvData' = submittedCvData
                      /\ activeCvIndex' = bubbles[b].idx]_vars

\* the second file of the batch failed and Generate was clicked again: the
\* record of "resume.pdf" goes to the recommendation generation and no modal
\* has been opened
C33_Witness ==
    /\ gen.pc = "recommending"
    /\ gen.failedAt = 2
    /\ gen.files = SelectedFiles
    /\ Len(uploadedCvs) = 1
    /\ uploadedCvs[1].name = "resume.pdf"
    /\ ~modalOpen
    /\ modalCvData = <<>>
    /\ ~dom.rendered

(***************************************************************************)
(* C34: whenever modalCvData is non-empty, activeCvIndex is a valid index  *)
(* into it and the rendered view shows modalCvData[activeCvIndex]; hence   *)
(* syncActiveCvFromDom never stores an undefined record into modalCvData,  *)
(* for every sequence of openCvModal, tab clicks, submits and bubble       *)
(* deletes: no element of modalCvData is undefined, a capture finds the    *)
(* lists of the active record in the view, and no step of the open modal   *)
(* changes the number of records.                                          *)
(***************************************************************************)
C34_ActiveIndexValid ==
    /\ [](/\ \A i \in 1..Len(modalCvData) : modalCvData[i] # UndefinedCv
          /\ modalCvData # <<>> =>
                /\ activeCvIndex \in 0..(Len(modalCvData) - 1)
                /\ dom.rendered
                /\ dom.name = modalCvData[activeCvIndex + 1].name
                /\ syncActiveCvFromDom(UI).modal[activeCvIndex + 1]
                      = readCvFromDom(modalCvData[activeCvIndex + 1], dom)
                /\ Len(syncActiveCvFromDom(UI).modal) = Len(modalCvData))
    /\ [][modalOpen => Len(modalCvData') = Len(modalCvData)]_vars

\* both records were submitted with the second tab active, the bubble of
\* "resume.pdf" was deleted and the bubble left was clicked: the modal holds
\* one record and the index is 0 again
C34_Witness ==
    /\ modalOpen
    /\ submits = 1
    /\ Len(submittedCvData) = 1
    /\ Len(modalCvData) = 1
    /\ modalCvData[1].name = "other.pdf"
    /\ activeCvIndex = 0
    /\ dom.name = "other.pdf"

\* this step starts a run of the Generate handler
GenerateStarts == gen.pc = "idle" /\ gen'.pc # "idle"

\* the names of the files of a selection
FileNames(files) == { files[i] : i \in 1..Len(files) }

(***************************************************************************)
(* C36: after the file selection changes to a different non-empty set of   *)
(* files, the next Generate click extracts and structures the newly        *)
(* selected files; records extracted from a previous selection are never   *)
(* used to generate recommendations for the new selection.  Every Generate *)
(* click with files selected either starts the file loop on the selection  *)
(* or finds in uploadedCvs only records of files of the selection: it      *)
(* never starts the recommendation generation on records of files that are *)
(* not in the current selection.                                           *)
(***************************************************************************)
C36_NewSelectionIsAnalyzed ==
    [][GenerateStarts =>
          \/ /\ gen'.pc = "extracting"
             /\ gen'.files = fileInput
          \/ /\ gen'.pc = "recommending"
             /\ NamesOf(uploadedCvs) \subseteq FileNames(fileInput)]_vars

\* the turns of handleSendMessage that are awaiting the stream or the
\* blocking call
TurnsInProgress == { t \in Turns : pc[t] \in {"awaitStream", "awaitFallback"} }

(***************************************************************************)
(* C35: at most one chat turn is in progress at any time: while            *)
(* handleSendMessage is awaiting the stream or the blocking call of one    *)
(* turn, no second turn can start, whether triggered by the send button or *)
(* by the Enter key.                                                       *)
(***************************************************************************)
C35_OneTurnInProgress == Cardinality(TurnsInProgress) <= 1

\* the recommendation generations that are in flight: at parseAndApplyRules
\* or at analyzeCvsWithAI
RunsInFlight == { i \in 1..Len(recoRuns) : recoRuns[i].state \in {"rules", "analyze"} }

(***************************************************************************)
(* C37: at most one recommendation generation (parseAndApplyRules and      *)
(* analyzeCvsWithAI) is in flight at any time across the Generate handler  *)
(* and the submit handler, so lastRecommendations and the persisted rule   *)
(* list are never written by two overlapping runs.                         *)
(***************************************************************************)
C37_OneGenerationInFlight == Cardinality(RunsInFlight) <= 1

\* the records the file loop of the Generate handler pushes for files
ExtractedCvs(files) ==
    [i \in 1..Len(files) |->
        [name |-> files[i], structured |-> StructuredSections(files[i])]]

\* the runs whose call of analyzeCvsWithAI has been made
RunsAnalyzed == { i \in 1..Len(recoRuns) : recoRuns[i].state \in {"analyze", "done"} }

(***************************************************************************)
(* C38: modal edits, tab switches, submit and submitted-bubble deletion    *)
(* leave uploadedCvs unchanged: the record list passed to analyzeCvsWithAI *)
(* is always the list produced by extraction and structuring, independent  *)
(* of the contents of the submitted record set.  Only a step of the file   *)
(* loop changes uploadedCvs, and every call of analyzeCvsWithAI was made   *)
(* with the records the file loop pushed for the files it got through.     *)
(***************************************************************************)
C38_UploadedCvsUntouchedByReview ==
    /\ [][uploadedCvs' # uploadedCvs => gen.pc = "extracting"]_vars
    /\ [](\A i \in RunsAnalyzed :
            /\ recoRuns[i].cvs = SubSeq(ExtractedCvs(gen.files), 1, gen.done)
            /\ recoRuns[i].cvs = uploadedCvs)

\* analyzeCvsWithAI was called by a submit of a record edited in the modal,
\* and was called again after the submitted record was deleted
C38_Witness ==
    /\ edits > 0
    /\ submittedCvData = <<>>
    /\ \E i, j \in RunsAnalyzed :
          /\ i < j
          /\ recoRuns[i].by = "submit"
          /\ recoRuns[j].by = "generate"
          /\ recoRuns[j].cvs # <<>>
====
